---- MODULE Spec2Model ----
(***************************************************************************)
(* veintidos: a chunked, deduplicating, content-addressable file store on  *)
(* top of RADOS.  The model follows src/veintidos/{cas,chunk,recipe,        *)
(* compressor,fingerprint}.py.  Byte strings are sequences of naturals;    *)
(* Python strings of digits are sequences of ASCII codes.                   *)
(***************************************************************************)
EXTENDS Integers, Sequences, FiniteSets, TLC

VARIABLES
    cas,      \* CAS namespace: fingerprint -> [data, compression, rc]
    index,    \* INDEX namespace: name -> (version key -> recipe fingerprint)
    clock,    \* int(time.time()*1000) as the latest write_full read it
    last,     \* the operation that completed last, with its arguments and result
    wlog,     \* per name: the version keys write_full returned, in call order
    written,  \* per name: version key -> content of the write_full that returned it last
    nrem,     \* number of remove_version / remove_all_versions calls so far
    chunk_size,   \* Chunker.chunk_size, set by the constructor
    compression,  \* identifier of CAS.compressor, set by the constructor
    buf,      \* the byte buffer the caller holds (the source of a write)
    pipe,     \* the write pipeline of a write_full in progress: chunk generator,
              \* task queue, pool workers and collected results
    calls     \* per caller: the write_full or remove_version call it is in, the
              \* statement it has reached and the call's local variables

vars == <<cas, index, clock, last, wlog, written, nrem, chunk_size, compression, buf, pipe,
          calls>>

----------------------------------------------------------------------------
(* Bounds of the model *)

MaxLen == 3
MaxChunk == 3
MaxWrites == 2
MaxRemoves == 1
MaxVerLen == 2
MaxCasLen == 1
MaxCasOps == 2
\* the largest number of extents of a hand-made recipe
MaxExtents == 2
\* the largest capacity of the outstanding-chunk semaphore, the largest number
\* of chunks per pool task and the largest number of pool threads
MaxOutstanding == 2
MaxBatch == 2
MaxWorkers == 2
\* the clock reading, in milliseconds, when the run starts
ClockStart == 8

(* Program constants *)

RECIPE_GET_SIZE == 104857600
RECIPE_VERSION == 0

Byte == {0, 255}
Names == {"a", "b"}
Kinds == {"file", "stream"}

----------------------------------------------------------------------------
(* Python helpers *)

Min(a, b) == IF a <= b THEN a ELSE b
Max(a, b) == IF a >= b THEN a ELSE b

\* the empty dict
EmptyMap == [k \in {} |-> 0]

\* s[i:j] with Python's clamping of indices, negative ones counted from the end
PySlice(s, i, j) ==
    LET n  == Len(s)
        lo == IF i < 0 THEN Max(i + n, 0) ELSE Min(i, n)
        hi == IF j < 0 THEN Max(j + n, 0) ELSE Min(j, n)
    IN  IF hi <= lo THEN <<>> ELSE SubSeq(s, lo + 1, hi)

\* "\x00" * n
Zeros(n) == IF n <= 0 THEN <<>> ELSE [i \in 1..n |-> 0]

\* all byte strings of length <= n
BytesUpTo(n) == UNION {[1..k -> Byte] : k \in 0..n}

\* str(n) for n >= 0, as ASCII codes
RECURSIVE Str(_)
Str(n) == IF n < 10 THEN <<48 + n>> ELSE Str(n \div 10) \o <<48 + (n % 10)>>

\* Python's < on strings
RECURSIVE StrLess(_, _)
StrLess(a, b) ==
    IF a = <<>> THEN b # <<>>
    ELSE IF b = <<>> THEN FALSE
    ELSE IF a[1] # b[1] THEN a[1] < b[1]
    ELSE StrLess(Tail(a), Tail(b))

\* max() of a non-empty set of strings
StrMax(S) == CHOOSE m \in S : \A o \in S : o = m \/ StrLess(o, m)

\* the strings of a set in ascending order (the order of omap keys)
RECURSIVE StrSorted(_)
StrSorted(S) ==
    IF S = {} THEN <<>>
    ELSE LET m == CHOOSE x \in S : \A o \in S : o = x \/ StrLess(x, o)
         IN  <<m>> \o StrSorted(S \ {m})

\* int(s) of a decimal string
RECURSIVE StrVal(_)
StrVal(s) == IF s = <<>> THEN 0 ELSE 10 * StrVal(SubSeq(s, 1, Len(s) - 1)) + (s[Len(s)] - 48)

----------------------------------------------------------------------------
(* fingerprint.py *)

\* SHA-256 hex digest: a deterministic, collision-free function of the bytes
Digest(data) == <<Len(data)>> \o [i \in 1..Len(data) |-> data[i] + 1]

fingerprint(data) == <<"SHA-256", Digest(data)>>

----------------------------------------------------------------------------
(* compressor.py *)

Compressors == {"no", "snappy", "bz2"}

supported == Compressors

\* run-length encoding, the first stage of a block compressor
RECURSIVE RunLength(_)
RunLength(d) ==
    IF d = <<>> THEN <<>>
    ELSE LET run == CHOOSE k \in 1..Len(d) :
                        /\ \A i \in 1..k : d[i] = d[1]
                        /\ (k = Len(d) \/ d[k + 1] # d[1])
         IN  <<run, d[1]>> \o RunLength(SubSeq(d, run + 1, Len(d)))

RECURSIVE RunExpand(_)
RunExpand(c) ==
    IF Len(c) < 2 THEN <<>>
    ELSE [i \in 1..c[1] |-> c[2]] \o RunExpand(SubSeq(c, 3, Len(c)))

NoCompress(data) == data
NoDecompress(data) == data

\* snappy stream: the uncompressed length, then the literal
SnappyCompress(data) == <<Len(data)>> \o data
SnappyDecompress(c) == IF c = <<>> THEN <<>> ELSE PySlice(Tail(c), 0, c[1])

\* bz2 stream: magic "BZ", then the run-length coded block
BZ2Compress(data) == <<66, 90>> \o RunLength(data)
BZ2Decompress(c) == RunExpand(SubSeq(c, 3, Len(c)))

compress(id, data) ==
    CASE id = "snappy" -> SnappyCompress(data)
      [] id = "bz2"    -> BZ2Compress(data)
      [] OTHER         -> NoCompress(data)

decompress(id, c) ==
    CASE id = "snappy" -> SnappyDecompress(c)
      [] id = "bz2"    -> BZ2Decompress(c)
      [] OTHER         -> NoDecompress(c)

----------------------------------------------------------------------------
(* The backend: one RADOS namespace with the "cas" object class *)

\* a put that keeps the payload of an existing object but records the
\* compression of the latest writer
ClsPut_latest_meta(store, key, payload, comp) ==
    IF key \in DOMAIN store
    THEN [store EXCEPT ![key].rc = @ + 1, ![key].compression = comp]
    ELSE [k \in DOMAIN store \cup {key} |->
            IF k = key THEN [data |-> payload, compression |-> comp, rc |-> 1]
            ELSE store[k]]

\* execute(fp, "cas", "put", ...): create with refcount 1, or bump and keep the
\* stored payload and metadata
ClsPut(store, key, payload, comp) ==
    IF key \in DOMAIN store
    THEN [store EXCEPT ![key].rc = @ + 1]
    ELSE [k \in DOMAIN store \cup {key} |->
            IF k = key THEN [data |-> payload, compression |-> comp, rc |-> 1]
            ELSE store[k]]

\* execute(fp, "cas", "up", ""): fails on a missing object
ClsUp(store, key) ==
    IF key \in DOMAIN store
    THEN [ok |-> TRUE, store |-> [store EXCEPT ![key].rc = @ + 1]]
    ELSE [ok |-> FALSE, store |-> store]

\* execute(fp, "cas", "down", ""): fails on a missing object, destroys at zero
ClsDown(store, key) ==
    IF key \notin DOMAIN store THEN [ok |-> FALSE, store |-> store]
    ELSE IF store[key].rc > 1
    THEN [ok |-> TRUE, store |-> [store EXCEPT ![key].rc = @ - 1]]
    ELSE [ok |-> TRUE, store |-> [k \in DOMAIN store \ {key} |-> store[k]]]

----------------------------------------------------------------------------
(* cas.py: class CAS *)

\* a put that fingerprints the compressed payload instead of the data
CAS_put_fp_compressed(comp, data) == fingerprint(compress(comp, data))[2]

\* a get that ignores the stored metadata and never decompresses
CAS_get_compression_none(store, fp) == "no"

\* CAS.put of a store configured with `compression`: the fingerprint it returns
\* and the store afterwards
CAS_put_fp(comp, data) == fingerprint(data)[2]

\* a put that writes the object outright, whether it exists or not
CAS_put_write_full(store, comp, data) ==
    LET fp == CAS_put_fp(comp, data)
    IN  [fp |-> fp,
         store |-> [k \in DOMAIN store \cup {fp} |->
                       IF k = fp THEN [data |-> compress(comp, data), compression |-> comp,
                                       rc |-> 1]
                       ELSE store[k]]]

CAS_put(store, comp, data) ==
    LET fp == CAS_put_fp(comp, data)
    IN  [fp |-> fp, store |-> ClsPut(store, fp, compress(comp, data), comp)]

\* the decompressor CAS.get selects: by the object's stored metadata
CAS_get_compression(store, fp) == store[fp].compression

\* CAS.get(fp, off, size)
CAS_get(store, fp, off, size) ==
    IF fp \notin DOMAIN store THEN [status |-> "ObjectNotFound", data |-> <<>>]
    ELSE LET data == decompress(CAS_get_compression(store, fp), store[fp].data)
             sz   == IF size < 0 THEN Len(data) ELSE size
         IN  [status |-> "ok", data |-> PySlice(data, off, off + sz)]

CAS_up(store, fp) == ClsUp(store, fp)

\* a down that never destroys: the object stays with its count lowered
CAS_down_keep(store, fp) ==
    IF fp \notin DOMAIN store THEN [ok |-> FALSE, store |-> store]
    ELSE [ok |-> TRUE, store |-> [store EXCEPT ![fp].rc = @ - 1]]

CAS_down(store, fp) == ClsDown(store, fp)

\* ioctx.execute(fp, "cas", method, "") as CAS.up and CAS.down see it: the
\* object class applies the change and 0 comes back, or rados.Error is raised,
\* or (status # 0) a status other than 0 comes back and nothing is changed
execute_refcount(store, method, fp, status) ==
    LET r == IF method = "up" THEN ClsUp(store, fp) ELSE ClsDown(store, fp)
    IN  IF status # 0 THEN [raised |-> FALSE, ret |-> status, store |-> store]
        ELSE [raised |-> ~r.ok, ret |-> 0, store |-> r.store]

\* the value CAS.up and CAS.down return: True after ret == 0, False from the
\* handler of rados.Error, and the value of a function that ends without a
\* return statement otherwise
refcount_return(e) == IF e.raised THEN "False" ELSE IF e.ret = 0 THEN "True" ELSE "None"

----------------------------------------------------------------------------
(* recipe.py *)

\* Overlap test of get_extents_in_range: an end point of the extent lies in
\* the closed interval [offset, offset + length]
InRange(e, length, offset) ==
    LET a == offset
        b == offset + length
    IN  (a <= e.off /\ e.off <= b) \/ (a <= e.off + e.size /\ e.off + e.size <= b)

\* a filter that lets every extent of the recipe through
get_extents_whole_recipe(fps, length, offset) == fps

get_extents_in_range(fps, length, offset) ==
    SelectSeq(fps, LAMBDA e : InRange(e, length, offset))

\* SimpleRecipe.get_size: needs a last extent
get_size(fps) ==
    IF fps = <<>> THEN [status |-> "IndexError", size |-> 0]
    ELSE [status |-> "ok", size |-> fps[Len(fps)].off + fps[Len(fps)].size]

\* msgpack of one extent (off, size, fp): array of 3, the str with its length
PackExtent(e) == <<3, e.off, e.size, Len(e.fp)>> \o e.fp

\* a packing that writes the extents last to first
RECURSIVE PackExtents_reversed(_)
PackExtents_reversed(fps) ==
    IF fps = <<>> THEN <<>> ELSE PackExtents_reversed(Tail(fps)) \o PackExtent(Head(fps))

RECURSIVE PackExtents(_)
PackExtents(fps) ==
    IF fps = <<>> THEN <<>> ELSE PackExtent(Head(fps)) \o PackExtents(Tail(fps))

\* SimpleRecipe.pack: msgpack of ((version,), fps)
pack(fps) == <<2, 1, RECIPE_VERSION, Len(fps)>> \o PackExtents(fps)

\* msgpack decoding of n extents from position pos
RECURSIVE UnpackExtents(_, _, _)
UnpackExtents(data, pos, n) ==
    IF n = 0 THEN [ok |-> TRUE, fps |-> <<>>, pos |-> pos]
    ELSE IF pos + 3 > Len(data) \/ data[pos] # 3
              \/ pos + 3 + data[pos + 3] > Len(data)
    THEN [ok |-> FALSE, fps |-> <<>>, pos |-> pos]
    ELSE LET e   == [off |-> data[pos + 1], size |-> data[pos + 2],
                     fp |-> SubSeq(data, pos + 4, pos + 3 + data[pos + 3])]
             r   == UnpackExtents(data, pos + 4 + data[pos + 3], n - 1)
         IN  [ok |-> r.ok, fps |-> <<e>> \o r.fps, pos |-> r.pos]

\* SimpleRecipe.unpack: None on extra data, RuntimeError on another version
unpack(data) ==
    IF Len(data) < 4 \/ data[1] # 2 \/ data[2] # 1
    THEN [status |-> "UnpackValueError", fps |-> <<>>]
    ELSE LET r == UnpackExtents(data, 5, data[4])
         IN  IF ~r.ok THEN [status |-> "UnpackValueError", fps |-> <<>>]
             ELSE IF r.pos <= Len(data) THEN [status |-> "None", fps |-> <<>>]
             ELSE IF data[3] # RECIPE_VERSION THEN [status |-> "RuntimeError", fps |-> <<>>]
             ELSE [status |-> "ok", fps |-> r.fps]

----------------------------------------------------------------------------
(* chunk.py: chunk generators *)

make_index_version(now) == now

\* mmap_chunker: the windows are computed from len(mm) up front
RECURSIVE MmapWindows(_, _, _, _, _, _)
MmapWindows(mm, cs, chunk_num, chunks, size, rest) ==
    IF chunk_num >= chunks THEN <<>>
    ELSE LET start == chunk_num * cs
         IN  <<[off |-> start, size |-> size, chunk |-> PySlice(mm, start, start + cs)]>>
             \o MmapWindows(mm, cs, chunk_num + 1, chunks, Min(rest - size, cs), rest - size)

\* windows that all declare the chunk size, the last one too
mmap_chunker_whole(mm, cs) ==
    LET chunks == (Len(mm) + cs - 1) \div cs
    IN  [i \in 1..chunks |-> [off |-> (i - 1) * cs, size |-> cs,
                              chunk |-> PySlice(mm, (i - 1) * cs, i * cs)]]

mmap_chunker(mm, cs) ==
    LET chunks == (Len(mm) + cs - 1) \div cs
        size   == IF Len(mm) < cs THEN Len(mm) ELSE cs
    IN  MmapWindows(mm, cs, 0, chunks, size, Len(mm))

\* a sequential chunker that takes the number of the chunk for its offset
RECURSIVE fallback_chunker_numbered(_, _, _, _)
fallback_chunker_numbered(file, cs, pos, chunk_num) ==
    LET chunk == PySlice(file, pos, pos + cs)
    IN  IF chunk = <<>> THEN <<>>
        ELSE <<[off |-> chunk_num, size |-> Len(chunk), chunk |-> chunk]>>
             \o (IF Len(chunk) < cs THEN <<>>
                 ELSE fallback_chunker_numbered(file, cs, pos + Len(chunk), chunk_num + 1))

\* fallback_chunker: read chunk_size bytes at a time until a short or empty read
RECURSIVE fallback_chunker(_, _, _, _)
fallback_chunker(file, cs, pos, chunk_num) ==
    LET chunk == PySlice(file, pos, pos + cs)
        start == chunk_num * cs
    IN  IF chunk = <<>> THEN <<>>
        ELSE <<[off |-> start, size |-> Len(chunk), chunk |-> chunk]>>
             \o (IF Len(chunk) < cs THEN <<>>
                 ELSE fallback_chunker(file, cs, pos + Len(chunk), chunk_num + 1))

\* a chunker that yields the full chunks only and drops a short last chunk
static_chunker_full_only(kind, file, cs) ==
    SelectSeq(fallback_chunker(file, cs, 0, 0), LAMBDA c : c.size = cs)

\* static_chunker: mmap for a regular file (an empty one cannot be mapped)
static_chunker(kind, file, cs) ==
    IF kind = "file" /\ file # <<>> THEN mmap_chunker(file, cs)
    ELSE fallback_chunker(file, cs, 0, 0)

----------------------------------------------------------------------------
(* chunk.py: class Chunker *)

HEAD == <<72, 69, 65, 68>>

\* a chunk writer that puts whatever the supplier returns
RECURSIVE write_chunks_unchecked(_, _, _)
write_chunks_unchecked(store, comp, chunks) ==
    IF chunks = <<>> THEN [status |-> "ok", store |-> store, fps |-> <<>>]
    ELSE LET c == Head(chunks)
             p == CAS_put(store, comp, c.chunk)
             r == write_chunks_unchecked(p.store, comp, Tail(chunks))
         IN  [status |-> r.status, store |-> r.store,
              fps |-> <<[off |-> c.off, size |-> c.size, fp |-> p.fp]>> \o r.fps]

\* _write_chunks / _cas_put_wrapper: the extents come back in input order
RECURSIVE write_chunks(_, _, _)
write_chunks(store, comp, chunks) ==
    IF chunks = <<>> THEN [status |-> "ok", store |-> store, fps |-> <<>>]
    ELSE LET c == Head(chunks)
         IN  IF Len(c.chunk) # c.size
             THEN [status |-> "AssertionError", store |-> store, fps |-> <<>>]
             ELSE LET p == CAS_put(store, comp, c.chunk)
                      r == write_chunks(p.store, comp, Tail(chunks))
                  IN  [status |-> r.status, store |-> r.store,
                       fps |-> <<[off |-> c.off, size |-> c.size, fp |-> p.fp]>> \o r.fps]

\* _versions_and_recipes: the omap of the index object, in key order
versions_and_recipes(idx, name) ==
    IF name \notin DOMAIN idx THEN [status |-> "ObjectNotFound", vals |-> <<>>]
    ELSE LET keys == StrSorted(DOMAIN idx[name])
         IN  [status |-> "ok",
              vals |-> [i \in 1..Len(keys) |-> [version |-> keys[i], recipe |-> idx[name][keys[i]]]]]

\* max() of the (version, recipe) pairs: the greatest version string
HeadKey(idx, name) == StrMax(DOMAIN idx[name])

\* _resolve_recipe_obj_from_version; callers unpack the result into two names
resolve_recipe_obj_from_version(idx, name, version) ==
    LET none == [status |-> "", version |-> <<>>, recipe |-> <<>>]
    IN  IF name \notin DOMAIN idx THEN [none EXCEPT !.status = "ObjectNotFound"]
        ELSE IF DOMAIN idx[name] = {} THEN [none EXCEPT !.status = "TypeError"]
        ELSE IF version = HEAD
        THEN [status |-> "ok", version |-> HeadKey(idx, name),
              recipe |-> idx[name][HeadKey(idx, name)]]
        ELSE IF version \notin DOMAIN idx[name] THEN [none EXCEPT !.status = "KeyError"]
        ELSE [status |-> "ok", version |-> version, recipe |-> idx[name][version]]

\* set_omap / remove_omap_keys / remove_object on the index object
set_omap(idx, name, key, val) ==
    LET old == IF name \in DOMAIN idx THEN idx[name] ELSE EmptyMap
        new == [k \in DOMAIN old \cup {key} |-> IF k = key THEN val ELSE old[k]]
    IN  [n \in DOMAIN idx \cup {name} |-> IF n = name THEN new ELSE idx[n]]

\* a removal of keys that also deletes an index object left without keys
remove_omap_keys_drop_empty(idx, name, key) ==
    IF DOMAIN idx[name] \subseteq {key}
    THEN [n \in DOMAIN idx \ {name} |-> idx[n]]
    ELSE [idx EXCEPT ![name] = [k \in DOMAIN idx[name] \ {key} |-> idx[name][k]]]

remove_omap_keys(idx, name, key) ==
    [idx EXCEPT ![name] = [k \in DOMAIN idx[name] \ {key} |-> idx[name][k]]]

remove_object(idx, name) == [n \in DOMAIN idx \ {name} |-> idx[n]]

\* Chunker.write_full with the clock reading `now`
write_full(store, idx, comp, cs, now, name, kind, file) ==
    LET w   == write_chunks(store, comp, static_chunker(kind, file, cs))
        p   == CAS_put(w.store, comp, pack(w.fps))
        key == Str(make_index_version(now))
    IN  IF w.status # "ok"
        THEN [status |-> w.status, store |-> w.store, idx |-> idx, version |-> <<>>]
        ELSE [status |-> "ok", store |-> p.store, version |-> key,
              idx |-> set_omap(idx, name, key, p.fp)]

\* Chunker.versions / Chunker.head_version (None: the empty string here)
versions(idx, name) ==
    LET r == versions_and_recipes(idx, name)
    IN  [status |-> r.status, versions |-> [i \in 1..Len(r.vals) |-> r.vals[i].version]]

head_version(idx, name) ==
    LET r == versions(idx, name)
    IN  IF r.status # "ok" THEN [status |-> r.status, version |-> <<>>]
        ELSE IF r.versions = <<>> THEN [status |-> "None", version |-> <<>>]
        ELSE [status |-> "ok", version |-> StrMax({r.versions[i] : i \in 1..Len(r.versions)})]

\* out_file.seek(off); out_file.write(bytes) on an in-memory file
SinkWrite(sink, off, bytes) ==
    LET n == Max(Len(sink), off + Len(bytes))
    IN  IF bytes = <<>> THEN sink
        ELSE [i \in 1..n |->
                IF i > off /\ i <= off + Len(bytes) THEN bytes[i - off]
                ELSE IF i <= Len(sink) THEN sink[i] ELSE 0]

\* the extent loop of read_full
RECURSIVE ReadExtents(_, _, _, _)
ReadExtents(store, fps, sink, bytes_written) ==
    IF fps = <<>> THEN [status |-> "ok", sink |-> sink, ret |-> bytes_written]
    ELSE LET e == Head(fps)
             g == CAS_get(store, e.fp, 0, e.size)
         IN  IF g.status # "ok" THEN [status |-> g.status, sink |-> sink, ret |-> 0]
             ELSE ReadExtents(store, Tail(fps),
                              SinkWrite(sink, e.off, PySlice(g.data, 0, e.size)),
                              bytes_written + e.size)

\* the recipe of a resolved version: unpack(cas.get(recipe_obj, size))
get_recipe(store, recipe_obj, size) ==
    LET g == CAS_get(store, recipe_obj, 0, size)
    IN  IF g.status # "ok" THEN [status |-> g.status, fps |-> <<>>]
        ELSE unpack(g.data)

\* Chunker.read_full into an empty out_file
read_full(store, idx, name, version) ==
    LET v == resolve_recipe_obj_from_version(idx, name, version)
        r == get_recipe(store, v.recipe, RECIPE_GET_SIZE)
    IN  IF v.status # "ok" THEN [status |-> v.status, sink |-> <<>>, ret |-> 0]
        ELSE IF r.status = "None" THEN [status |-> "TypeError", sink |-> <<>>, ret |-> 0]
        ELSE IF r.status # "ok" THEN [status |-> r.status, sink |-> <<>>, ret |-> 0]
        ELSE ReadExtents(store, r.fps, <<>>, 0)

\* Phase 1 of read: the (partial) chunk of every extent in range, with the
\* running offset it was recorded under
RECURSIVE ReadPhase1(_, _, _, _)
ReadPhase1(store, extents, offset, end) ==
    IF extents = <<>> THEN [status |-> "ok", bufs |-> <<>>]
    ELSE LET e            == Head(extents)
             local_offset == Max(offset, e.off)
             extent_end   == e.size + e.off
             chunk_offset == Max(offset - e.off, 0)
             chunk_length == Min(end - local_offset, extent_end - local_offset)
             g            == CAS_get(store, e.fp, chunk_offset, chunk_length)
             r            == ReadPhase1(store, Tail(extents), offset + chunk_length, end)
         IN  IF g.status # "ok" THEN [status |-> g.status, bufs |-> <<>>]
             ELSE [status |-> r.status,
                   bufs |-> <<[off |-> offset, buf |-> PySlice(g.data, 0, chunk_length)]>>
                            \o r.bufs]

\* the sub-ranges phase 1 of read asks cas.get for, one for every extent in
\* range: off and size are the arguments, len is the length of the extent
RECURSIVE Phase1Gets(_, _, _)
Phase1Gets(extents, offset, end) ==
    IF extents = <<>> THEN <<>>
    ELSE LET e            == Head(extents)
             local_offset == Max(offset, e.off)
             extent_end   == e.size + e.off
             chunk_offset == Max(offset - e.off, 0)
             chunk_length == Min(end - local_offset, extent_end - local_offset)
         IN  <<[off |-> chunk_offset, size |-> chunk_length, len |-> e.size]>>
             \o Phase1Gets(Tail(extents), offset + chunk_length, end)

\* the cas.get calls of Chunker.read on a stored version
read_gets(store, idx, name, length, offset, version) ==
    LET v       == resolve_recipe_obj_from_version(idx, name, version)
        r       == get_recipe(store, v.recipe, -1)
        extents == get_extents_in_range(r.fps, length, offset)
        sz      == get_size(r.fps)
        end     == Min(offset + length, sz.size)
    IN  IF v.status # "ok" \/ r.status # "ok" \/ sz.status # "ok" THEN <<>>
        ELSE Phase1Gets(extents, offset, end)

\* Phase 2 of read, the loop over zip(bufs, bufs[1:])
RECURSIVE ReadPairs(_, _)
ReadPairs(bufs, i) ==
    IF i >= Len(bufs) THEN <<>>
    ELSE LET c_end == bufs[i].off + Len(bufs[i].buf)
             n_off == bufs[i + 1].off
         IN  bufs[i].buf \o (IF c_end < n_off THEN Zeros(n_off - c_end) ELSE <<>>)
             \o ReadPairs(bufs, i + 1)

RECURSIVE BufsLen(_)
BufsLen(bufs) == IF bufs = <<>> THEN 0 ELSE Len(Head(bufs).buf) + BufsLen(Tail(bufs))

\* Phase 2 of read: concatenate and zero-fill
ReadPhase2(bufs, orig_offset, length, end) ==
    LET first_off == bufs[1].off
        lead      == IF orig_offset < first_off THEN Zeros(first_off - orig_offset) ELSE <<>>
        offset0   == IF orig_offset < first_off THEN first_off ELSE orig_offset
        last_buf  == bufs[Len(bufs)]
        last_end  == last_buf.off + Len(last_buf.buf)
        offset    == offset0 + BufsLen(bufs)
        trail     == IF last_end < end THEN Zeros((offset + length) - last_end) ELSE <<>>
    IN  lead \o ReadPairs(bufs, 1) \o last_buf.buf \o trail

\* Chunker.read
read(store, idx, name, length, offset, version) ==
    LET v       == resolve_recipe_obj_from_version(idx, name, version)
        r       == get_recipe(store, v.recipe, -1)
        extents == get_extents_in_range(r.fps, length, offset)
        sz      == get_size(r.fps)
        end     == Min(offset + length, sz.size)
        p1      == ReadPhase1(store, extents, offset, end)
    IN  IF v.status # "ok" THEN [status |-> v.status, out |-> <<>>]
        ELSE IF r.status = "None" THEN [status |-> "TypeError", out |-> <<>>]
        ELSE IF r.status # "ok" THEN [status |-> r.status, out |-> <<>>]
        ELSE IF sz.status # "ok" THEN [status |-> sz.status, out |-> <<>>]
        ELSE IF p1.status # "ok" THEN [status |-> p1.status, out |-> <<>>]
        ELSE IF p1.bufs = <<>> THEN [status |-> "IndexError", out |-> <<>>]
        ELSE [status |-> "ok", out |-> ReadPhase2(p1.bufs, offset, length, end)]

\* a removal that drops every distinct chunk object outright
DownExtents_destroy(store, fps) ==
    [k \in DOMAIN store \ {fps[i].fp : i \in 1..Len(fps)} |-> store[k]]

\* a loop that lowers every fingerprint of the recipe once, however often
\* the recipe lists it
RECURSIVE DownExtents_once(_, _)
DownExtents_once(store, fps) ==
    IF fps = <<>> THEN store
    ELSE DownExtents_once(CAS_down(store, Head(fps).fp).store,
                          SelectSeq(Tail(fps), LAMBDA e : e.fp # Head(fps).fp))

\* cas.down for every extent of the recipe, in order
RECURSIVE DownExtents(_, _)
DownExtents(store, fps) ==
    IF fps = <<>> THEN store
    ELSE DownExtents(CAS_down(store, Head(fps).fp).store, Tail(fps))

\* a resolution that takes the latest version when the key asked for is not
\* in the index map
remove_version_target_latest(idx, name, version) ==
    IF name \in DOMAIN idx /\ version \notin DOMAIN idx[name]
    THEN resolve_recipe_obj_from_version(idx, name, HEAD)
    ELSE resolve_recipe_obj_from_version(idx, name, version)

\* the version remove_version resolves its argument to
remove_version_target(idx, name, version) ==
    resolve_recipe_obj_from_version(idx, name, version)

\* Chunker.remove_version
remove_version(store, idx, name, version) ==
    LET v == remove_version_target(idx, name, version)
        r == get_recipe(store, v.recipe, -1)
    IN  IF v.status # "ok"
        THEN [status |-> v.status, store |-> store, idx |-> idx, version |-> <<>>]
        ELSE IF r.status # "ok"
        THEN [status |-> IF r.status = "None" THEN "TypeError" ELSE r.status,
              store |-> store, idx |-> idx, version |-> <<>>]
        ELSE [status |-> "ok", version |-> v.version,
              idx |-> remove_omap_keys(idx, name, v.version),
              store |-> CAS_down(DownExtents(store, r.fps), v.recipe).store]

\* the loop of remove_all_versions over the listed versions; r is the outcome
\* of one remove_version call
RECURSIVE RemoveEach(_, _, _, _)
RemoveEach(store, idx, name, todo) ==
    IF todo = <<>> THEN [status |-> "ok", store |-> store, idx |-> idx]
    ELSE CHOOSE res \in
            {IF r.status # "ok" THEN [status |-> r.status, store |-> r.store, idx |-> r.idx]
             ELSE RemoveEach(r.store, r.idx, name, Tail(todo)) :
                r \in {remove_version(store, idx, name, Head(todo).version)}} : TRUE

\* Chunker.remove_all_versions
remove_all_versions(store, idx, name) ==
    LET todo == versions_and_recipes(idx, name)
        r    == RemoveEach(store, idx, name, todo.vals)
    IN  IF todo.status # "ok" THEN [status |-> todo.status, store |-> store, idx |-> idx]
        ELSE IF r.status # "ok" THEN r
        ELSE [status |-> "ok", store |-> r.store, idx |-> remove_object(r.idx, name)]

----------------------------------------------------------------------------
(* State *)

NoOp == [op |-> "none", name |-> "", version |-> <<>>, data |-> <<>>,
         fp |-> <<>>, out |-> <<>>, ret |-> 0, status |-> "", rc0 |-> 0,
         offset |-> 0, length |-> 0, fps |-> <<>>, comp |-> "",
         want |-> <<>>, kind |-> ""]

\* no write_full in progress
NoPipe == [phase |-> "idle", kind |-> "", N |-> 0, B |-> 0, W |-> 0,
           pos |-> 0, chunk_num |-> 0, short |-> FALSE, gen_done |-> FALSE,
           sem |-> 0, batch |-> <<>>, nbatches |-> 0, tasks |-> <<>>,
           work |-> <<>>, results |-> <<>>, order |-> <<>>,
           nread |-> 0, nsupplied |-> 0, fps |-> <<>>]

\* the callers that work on the pool at the same time
Callers == {1, 2}

\* a caller that is in no call
NoCall == [op |-> "", pc |-> "idle", name |-> "", want |-> <<>>, data |-> <<>>,
           fps |-> <<>>, recipe_obj |-> <<>>, key |-> <<>>, todo |-> <<>>,
           status |-> ""]

\* an empty pool, nothing called yet
InitStore ==
    /\ cas = EmptyMap
    /\ index = EmptyMap
    /\ clock = ClockStart
    /\ last = NoOp
    /\ wlog = [n \in Names |-> <<>>]
    /\ written = [n \in Names |-> EmptyMap]
    /\ nrem = 0
    /\ pipe = NoPipe
    /\ calls = [c \in Callers |-> NoCall]

\* CAS(ioctx) with its default compression and Chunker(cas, ioctx, chunk_size)
\* constructed, with one-byte chunks or with chunks that hold a whole source
Init ==
    /\ InitStore
    /\ chunk_size \in {1, MaxChunk}
    /\ compression = "no"
    /\ buf = <<>>

RefCount(store, fp) == IF fp \in DOMAIN store THEN store[fp].rc ELSE 0

----------------------------------------------------------------------------
(* CAS-level operations *)

Put(comp, data) ==
    LET r == CAS_put(cas, comp, data)
    IN  /\ cas' = r.store
        /\ last' = [NoOp EXCEPT !.op = "put", !.data = data, !.fp = r.fp, !.comp = comp,
                                !.status = "ok", !.rc0 = RefCount(cas, r.fp)]
        /\ UNCHANGED <<index, clock, wlog, written, nrem, chunk_size, compression, buf, pipe, calls>>

\* CAS(ioctx, compression=comp): another store object on the same pool
NewCAS(comp) ==
    /\ comp \in supported
    /\ comp # compression
    /\ compression' = comp
    /\ last' = [NoOp EXCEPT !.op = "cas", !.comp = comp]
    /\ UNCHANGED <<cas, index, clock, wlog, written, nrem, chunk_size, buf, pipe, calls>>

Get(fp) ==
    LET r == CAS_get(cas, fp, 0, -1)
    IN  /\ last' = [NoOp EXCEPT !.op = "get", !.fp = fp, !.out = r.data,
                                !.status = r.status, !.rc0 = RefCount(cas, fp)]
        /\ UNCHANGED <<cas, index, clock, wlog, written, nrem, chunk_size, compression, buf, pipe, calls>>

Up(fp) ==
    LET r == CAS_up(cas, fp)
    IN  /\ cas' = r.store
        /\ last' = [NoOp EXCEPT !.op = "up", !.fp = fp, !.rc0 = RefCount(cas, fp),
                                !.status = IF r.ok THEN "ok" ELSE "false"]
        /\ UNCHANGED <<index, clock, wlog, written, nrem, chunk_size, compression, buf, pipe, calls>>

\* CAS.up(fp) and CAS.down(fp), with the value returned and with the status
\* the backend answers when it does not raise
RefcountCall(method, fp, status) ==
    LET e == execute_refcount(cas, method, fp, status)
    IN  /\ cas' = e.store
        /\ last' = [NoOp EXCEPT !.op = method, !.fp = fp, !.rc0 = RefCount(cas, fp),
                                !.ret = status, !.status = refcount_return(e)]
        /\ UNCHANGED <<index, clock, wlog, written, nrem, chunk_size, compression, buf, pipe, calls>>

Down(fp) ==
    LET r == CAS_down(cas, fp)
    IN  /\ cas' = r.store
        /\ last' = [NoOp EXCEPT !.op = "down", !.fp = fp, !.rc0 = RefCount(cas, fp),
                                !.status = IF r.ok THEN "ok" ELSE "false"]
        /\ UNCHANGED <<index, clock, wlog, written, nrem, chunk_size, compression, buf, pipe, calls>>

----------------------------------------------------------------------------
(* Recipe operations *)

\* SimpleRecipe(fps)
NewRecipe(fps) ==
    /\ last.op = "none"
    /\ last' = [NoOp EXCEPT !.op = "recipe", !.fps = fps]
    /\ UNCHANGED <<cas, index, clock, wlog, written, nrem, chunk_size, compression, buf, pipe, calls>>

\* recipe.pack(), of the recipe made last
Pack ==
    /\ last.op = "recipe"
    /\ last' = [NoOp EXCEPT !.op = "pack", !.fps = last.fps, !.out = pack(last.fps),
                            !.status = "ok"]
    /\ UNCHANGED <<cas, index, clock, wlog, written, nrem, chunk_size, compression, buf, pipe, calls>>

\* recipe.extents_in_range(length, offset), of the recipe made last
ExtentsInRange(length, offset) ==
    /\ last.op = "recipe"
    /\ last' = [NoOp EXCEPT !.op = "extents_in_range", !.fps = last.fps,
                            !.length = length, !.offset = offset,
                            !.out = get_extents_in_range(last.fps, length, offset),
                            !.status = "ok"]
    /\ UNCHANGED <<cas, index, clock, wlog, written, nrem, chunk_size, compression, buf, pipe, calls>>

\* SimpleRecipe.unpack(data)
Unpack(data) ==
    LET r == unpack(data)
    IN  /\ last' = [NoOp EXCEPT !.op = "unpack", !.data = data, !.fps = r.fps,
                                !.status = r.status]
        /\ UNCHANGED <<cas, index, clock, wlog, written, nrem, chunk_size, compression, buf, pipe, calls>>

----------------------------------------------------------------------------
(* Chunker operations *)

NumWrites == LET RECURSIVE Sum(_)
                 Sum(S) == IF S = {} THEN 0
                           ELSE LET n == CHOOSE n \in S : TRUE
                                IN  Len(wlog[n]) + Sum(S \ {n})
             IN  Sum(Names)

\* the contents recorded for the versions an index still holds
Keep(w, idx) ==
    [n \in Names |->
        IF n \in DOMAIN idx
        THEN [k \in DOMAIN w[n] \cap DOMAIN idx[n] |-> w[n][k]]
        ELSE EmptyMap]

ContentOf(name, version) ==
    IF version \in DOMAIN written[name] THEN written[name][version] ELSE <<>>

\* write_full called when time.time()*1000 reads `now`
WriteFull(name, kind, file, now) ==
    LET r == write_full(cas, index, compression, chunk_size, now, name, kind, file)
    IN  /\ clock' = now
        /\ cas' = r.store
        /\ index' = r.idx
        /\ wlog' = IF r.status = "ok" THEN [wlog EXCEPT ![name] = Append(@, r.version)]
                   ELSE wlog
        /\ written' = IF r.status # "ok" THEN written
                      ELSE [written EXCEPT ![name] =
                              [k \in DOMAIN @ \cup {r.version} |->
                                  IF k = r.version THEN file ELSE @[k]]]
        /\ last' = [NoOp EXCEPT !.op = "write_full", !.name = name, !.data = file, !.kind = kind,
                                !.version = r.version, !.status = r.status]
        /\ UNCHANGED <<nrem, chunk_size, compression, buf, pipe, calls>>

ReadFull(name, version) ==
    LET r == read_full(cas, index, name, version)
    IN  /\ last' = [NoOp EXCEPT !.op = "read_full", !.name = name, !.version = version,
                                !.want = version,
                                !.out = r.sink, !.ret = r.ret, !.status = r.status]
        /\ UNCHANGED <<cas, index, clock, wlog, written, nrem, chunk_size, compression, buf, pipe, calls>>

Read(name, length, offset, version) ==
    LET r == read(cas, index, name, length, offset, version)
    IN  /\ last' = [NoOp EXCEPT !.op = "read", !.name = name, !.version = version,
                                !.want = version,
                                !.length = length, !.offset = offset,
                                !.out = r.out, !.status = r.status]
        /\ UNCHANGED <<cas, index, clock, wlog, written, nrem, chunk_size, compression, buf, pipe, calls>>

RemoveVersion(name, version) ==
    LET r == remove_version(cas, index, name, version)
    IN  /\ cas' = r.store
        /\ index' = r.idx
        /\ written' = Keep(written, r.idx)
        /\ nrem' = nrem + 1
        /\ last' = [NoOp EXCEPT !.op = "remove_version", !.name = name,
                                !.version = r.version, !.status = r.status,
                                !.want = version,
                                !.data = ContentOf(name, r.version)]
        /\ UNCHANGED <<clock, wlog, chunk_size, compression, buf, pipe, calls>>

RemoveAllVersions(name) ==
    LET r == remove_all_versions(cas, index, name)
    IN  /\ cas' = r.store
        /\ index' = r.idx
        /\ written' = Keep(written, r.idx)
        /\ nrem' = nrem + 1
        /\ last' = [NoOp EXCEPT !.op = "remove_all_versions", !.name = name,
                                !.status = r.status,
                                !.ret = Len(versions_and_recipes(index, name).vals)]
        /\ UNCHANGED <<clock, wlog, chunk_size, compression, buf, pipe, calls>>

----------------------------------------------------------------------------
(* chunk.py: the write pipeline of write_full.  The chunk generator is
   drained by the pool's task thread in tasks of B chunks, W pool threads run
   _cas_put_wrapper on the chunks of a task, and imap hands the results back
   by task number. *)

\* static_chunker: mmap of an empty file fails and the fallback is used
chunker_kind(kind, file) == IF kind = "file" /\ file # <<>> THEN "file" ELSE "stream"

\* _write_chunks entered: Pool(W), imap(..., chunksize=B), a generator with
\* BoundedSemaphore(N) not yet started
start_pipeline(kind, file, N, B, W) ==
    [NoPipe EXCEPT !.phase = "run", !.kind = chunker_kind(kind, file),
                   !.N = N, !.B = B, !.W = W, !.sem = N,
                   !.work = [w \in 1..W |-> [busy |-> FALSE, idx |-> 0,
                                             items |-> <<>>, res |-> <<>>]]]

\* an acquire that never waits
sem_acquire_nowait(sem) == TRUE

\* outstanding.acquire() returns only while a slot is free
sem_acquire(sem) == sem > 0

\* next() on the generator can run to its next yield or to its end
gen_enabled(p) ==
    \/ p.kind = "file"
    \/ p.short
    \/ sem_acquire(p.sem)

\* one next() on mmap_chunker
mmap_next(p, file, cs) ==
    LET w == mmap_chunker(file, cs)
    IN  IF p.chunk_num >= Len(w) THEN [p EXCEPT !.gen_done = TRUE]
        ELSE [p EXCEPT !.batch = Append(@, w[p.chunk_num + 1]),
                       !.chunk_num = @ + 1, !.nread = @ + 1]

\* one next() on fallback_chunker: resume after the last yield, acquire, read
fallback_next(p, file, cs) ==
    LET chunk == PySlice(file, p.pos, p.pos + cs)
    IN  IF p.short THEN [p EXCEPT !.gen_done = TRUE]
        ELSE IF chunk = <<>> THEN [p EXCEPT !.sem = @ - 1, !.gen_done = TRUE]
        ELSE [p EXCEPT !.sem = @ - 1,
                       !.batch = Append(@, [off |-> p.chunk_num * cs,
                                            size |-> Len(chunk), chunk |-> chunk]),
                       !.pos = @ + Len(chunk), !.chunk_num = @ + 1,
                       !.short = Len(chunk) < cs, !.nread = @ + 1]

\* Pool._get_tasks: a task is complete with B chunks or at the generator's end
flush_task(p) ==
    IF p.batch # <<>> /\ (p.gen_done \/ Len(p.batch) = p.B)
    THEN [p EXCEPT !.tasks = Append(@, [idx |-> p.nbatches + 1, items |-> p.batch]),
                   !.nbatches = @ + 1, !.batch = <<>>]
    ELSE p

\* a pool thread that reads the oldest task and leaves it in the queue
worker_take_peek(p, w) ==
    [p EXCEPT !.work[w] = [busy |-> TRUE, idx |-> Head(p.tasks).idx,
                           items |-> Head(p.tasks).items, res |-> <<>>]]

\* a pool thread takes the oldest task
worker_take(p, w) ==
    [p EXCEPT !.tasks = Tail(@),
              !.work[w] = [busy |-> TRUE, idx |-> Head(p.tasks).idx,
                           items |-> Head(p.tasks).items, res |-> <<>>]]

\* _cas_put_wrapper on the next chunk of the thread's task: chunk_func()
\* releases the slot, then cas.put; the last chunk completes the task
worker_item(p, w, store, comp) ==
    LET c    == Head(p.work[w].items)
        put  == CAS_put(store, comp, c.chunk)
        res  == Append(p.work[w].res, [off |-> c.off, size |-> c.size, fp |-> put.fp])
        rest == Tail(p.work[w].items)
        q    == [p EXCEPT !.sem = IF p.kind = "stream" THEN @ + 1 ELSE @,
                          !.nsupplied = @ + 1]
    IN  [store |-> put.store,
         status |-> IF Len(c.chunk) = c.size THEN "ok" ELSE "AssertionError",
         pipe |-> IF rest # <<>>
                  THEN [q EXCEPT !.work[w].items = rest, !.work[w].res = res]
                  ELSE [q EXCEPT !.work[w] = [busy |-> FALSE, idx |-> 0,
                                              items |-> <<>>, res |-> <<>>],
                                 !.results = [i \in DOMAIN @ \cup {p.work[w].idx} |->
                                                 IF i = p.work[w].idx THEN res ELSE @[i]],
                                 !.order = Append(@, p.work[w].idx)]]

\* the results of the tasks in the order the tasks completed
RECURSIVE imap_result_unordered(_, _)
imap_result_unordered(p, i) ==
    IF i > Len(p.order) THEN <<>>
    ELSE p.results[p.order[i]] \o imap_result_unordered(p, i + 1)

\* list(result) of imap: the results of the tasks by task number
RECURSIVE imap_result(_, _)
imap_result(p, i) ==
    IF i > p.nbatches THEN <<>> ELSE p.results[i] \o imap_result(p, i + 1)

\* a pipeline that has been set up, whatever is still to do
pipeline_started(p) == p.phase = "run"

\* every chunk has been generated and every task has completed
pipeline_drained(p) ==
    /\ p.phase = "run"
    /\ p.gen_done
    /\ p.batch = <<>>
    /\ p.tasks = <<>>
    /\ \A w \in 1..p.W : ~p.work[w].busy

\* write_full after _write_chunks: pack and put the recipe, insert the key
save_recipe(store, idx, comp, now, name, fps) ==
    LET pr  == CAS_put(store, comp, pack(fps))
        key == Str(make_index_version(now))
    IN  [status |-> "ok", store |-> pr.store, version |-> key,
         idx |-> set_omap(idx, name, key, pr.fp)]

\* the chunk of a hand-made extent: `size` bytes, none of them zero
Ones(n) == [i \in 1..n |-> 255]

\* the file a recipe describes: the chunk bytes where an extent covers the
\* position, a zero byte where none does
Image(fps) ==
    [i \in 1..get_size(fps).size |->
        IF \E k \in 1..Len(fps) : fps[k].off < i /\ i <= fps[k].off + fps[k].size
        THEN 255 ELSE 0]

\* cas.put of the chunk of every extent
RECURSIVE PutChunks(_, _, _)
PutChunks(store, comp, fps) ==
    IF fps = <<>> THEN store
    ELSE PutChunks(CAS_put(store, comp, Ones(Head(fps).size)).store, comp, Tail(fps))

\* a recipe with the given extents is made, its chunks and the recipe are
\* put and the version entry is added, when time.time()*1000 reads `now`
StoreRecipe(name, fps, now) ==
    LET r == save_recipe(PutChunks(cas, compression, fps), index, compression, now, name, fps)
    IN  /\ clock' = now
        /\ cas' = r.store
        /\ index' = r.idx
        /\ wlog' = [wlog EXCEPT ![name] = Append(@, r.version)]
        /\ written' = [written EXCEPT ![name] =
                         [k \in DOMAIN @ \cup {r.version} |->
                             IF k = r.version THEN Image(fps) ELSE @[k]]]
        /\ last' = [NoOp EXCEPT !.op = "store_recipe", !.name = name, !.fps = fps,
                                !.data = Image(fps), !.version = r.version,
                                !.status = r.status]
        /\ UNCHANGED <<nrem, chunk_size, compression, buf, pipe, calls>>

\* Chunker.write_full with self.chunker yielding `chunks`
write_full_chunks(store, idx, comp, now, name, chunks) ==
    LET w == write_chunks(store, comp, chunks)
        r == save_recipe(w.store, idx, comp, now, name, w.fps)
    IN  IF w.status # "ok"
        THEN [status |-> w.status, store |-> w.store, idx |-> idx, version |-> <<>>]
        ELSE r

RECURSIVE ChunkBytes(_)
ChunkBytes(chunks) ==
    IF chunks = <<>> THEN <<>> ELSE Head(chunks).chunk \o ChunkBytes(Tail(chunks))

\* write_full of a Chunker whose chunk generator yields `chunks`
WriteFullChunks(name, chunks, now) ==
    LET r == write_full_chunks(cas, index, compression, now, name, chunks)
    IN  /\ clock' = now
        /\ cas' = r.store
        /\ index' = r.idx
        /\ wlog' = IF r.status = "ok" THEN [wlog EXCEPT ![name] = Append(@, r.version)]
                   ELSE wlog
        /\ written' = IF r.status # "ok" THEN written
                      ELSE [written EXCEPT ![name] =
                              [k \in DOMAIN @ \cup {r.version} |->
                                  IF k = r.version THEN ChunkBytes(chunks) ELSE @[k]]]
        /\ last' = [NoOp EXCEPT !.op = "write_full", !.name = name, !.fps = chunks,
                                !.data = ChunkBytes(chunks), !.kind = "chunks",
                                !.version = r.version, !.status = r.status]
        /\ UNCHANGED <<nrem, chunk_size, compression, buf, pipe, calls>>

\* cas.put of the bytes of a recipe object and the version entry for it,
\* when time.time()*1000 reads `now`
PutRecipeBytes(name, data, now) ==
    LET p   == CAS_put(cas, compression, data)
        key == Str(make_index_version(now))
    IN  /\ clock' = now
        /\ cas' = p.store
        /\ index' = set_omap(index, name, key, p.fp)
        /\ wlog' = [wlog EXCEPT ![name] = Append(@, key)]
        /\ written' = [written EXCEPT ![name] =
                         [k \in DOMAIN @ \cup {key} |-> IF k = key THEN <<>> ELSE @[k]]]
        /\ last' = [NoOp EXCEPT !.op = "put_recipe", !.name = name, !.data = data,
                                !.version = key, !.fp = p.fp, !.status = "ok"]
        /\ UNCHANGED <<nrem, chunk_size, compression, buf, pipe, calls>>

\* write_full entered: the pipeline is set up
StartWriteFull(kind, N, B, W) ==
    /\ pipe.phase = "idle"
    /\ pipe' = start_pipeline(kind, buf, N, B, W)
    /\ UNCHANGED <<cas, index, clock, last, wlog, written, nrem, chunk_size, compression, buf, calls>>

\* the task thread pulls the next chunk from the generator
GenNext ==
    /\ pipe.phase = "run"
    /\ ~pipe.gen_done
    /\ gen_enabled(pipe)
    /\ pipe' = flush_task(IF pipe.kind = "file" THEN mmap_next(pipe, buf, chunk_size)
                          ELSE fallback_next(pipe, buf, chunk_size))
    /\ UNCHANGED <<cas, index, clock, last, wlog, written, nrem, chunk_size, compression, buf, calls>>

WorkerTake(w) ==
    /\ pipe.phase = "run"
    /\ w \in 1..pipe.W
    /\ ~pipe.work[w].busy
    /\ pipe.tasks # <<>>
    /\ pipe' = worker_take(pipe, w)
    /\ UNCHANGED <<cas, index, clock, last, wlog, written, nrem, chunk_size, compression, buf, calls>>

WorkerItem(w) ==
    /\ pipe.phase = "run"
    /\ w \in 1..pipe.W
    /\ pipe.work[w].busy
    /\ LET r == worker_item(pipe, w, cas, compression)
       IN  IF r.status = "ok"
           THEN /\ cas' = r.store
                /\ pipe' = r.pipe
                /\ UNCHANGED last
           ELSE /\ pipe' = [pipe EXCEPT !.phase = "failed"]
                /\ last' = [NoOp EXCEPT !.op = "write_full", !.data = buf,
                                        !.status = r.status]
                /\ UNCHANGED cas
    /\ UNCHANGED <<index, clock, wlog, written, nrem, chunk_size, compression, buf, calls>>

\* _write_chunks returns list(result); write_full saves the recipe at `now`
FinishWriteFull(name, now) ==
    /\ pipeline_drained(pipe)
    /\ LET fps == imap_result(pipe, 1)
           r   == save_recipe(cas, index, compression, now, name, fps)
       IN  /\ clock' = now
           /\ cas' = r.store
           /\ index' = r.idx
           /\ wlog' = [wlog EXCEPT ![name] = Append(@, r.version)]
           /\ written' = [written EXCEPT ![name] =
                             [k \in DOMAIN @ \cup {r.version} |->
                                 IF k = r.version THEN buf ELSE @[k]]]
           /\ last' = [NoOp EXCEPT !.op = "write_full", !.name = name, !.data = buf,
                                   !.version = r.version, !.status = r.status]
           /\ pipe' = [pipe EXCEPT !.phase = "done", !.fps = fps]
    /\ UNCHANGED <<nrem, chunk_size, compression, buf, calls>>

\* a CAS.put of a chunk or the read of the source raises: list(result)
\* raises in write_full, which ends without saving a recipe
AbortWriteFull(name) ==
    /\ pipe.phase = "run"
    /\ pipe' = [pipe EXCEPT !.phase = "aborted"]
    /\ last' = [NoOp EXCEPT !.op = "write_full", !.name = name, !.data = buf,
                            !.status = "CASError"]
    /\ UNCHANGED <<cas, index, clock, wlog, written, nrem, chunk_size, compression, buf, calls>>

\* the recipe has been put and the write op on the index object raises
AbortSaveRecipe(name) ==
    /\ pipeline_drained(pipe)
    /\ cas' = CAS_put(cas, compression, pack(imap_result(pipe, 1))).store
    /\ pipe' = [pipe EXCEPT !.phase = "aborted"]
    /\ last' = [NoOp EXCEPT !.op = "write_full", !.name = name, !.data = buf,
                            !.status = "rados.Error"]
    /\ UNCHANGED <<index, clock, wlog, written, nrem, chunk_size, compression, buf, calls>>

\* write_full has returned its key; the caller can call again
ReturnWriteFull ==
    /\ pipe.phase = "done"
    /\ NumWrites < MaxWrites
    /\ pipe' = NoPipe
    /\ UNCHANGED <<cas, index, clock, last, wlog, written, nrem, chunk_size, compression, buf, calls>>

\* sources of the versioning runs: runs of one byte value, which share and
\* repeat chunks, and the empty source
VerContents == {[i \in 1..k |-> 255] : k \in 0..MaxVerLen}

\* the clock readings of a run: no time or one millisecond passes between calls
Elapsed == {0, 1}

VersionKeys == {Str(t) : t \in ClockStart..(ClockStart + MaxWrites)}

Next ==
    \/ \E n \in Names, x \in VerContents, dt \in Elapsed :
          NumWrites < MaxWrites /\ WriteFull(n, "stream", x, clock + dt)
    \/ \E n \in Names, v \in VersionKeys \cup {HEAD} :
          nrem < MaxRemoves /\ RemoveVersion(n, v)
    \/ \E n \in Names : nrem < MaxRemoves /\ RemoveAllVersions(n)

Spec == Init /\ [][Next]_vars

----------------------------------------------------------------------------
(* Runs of the CAS class alone: stores with any compression policy over one
   I/O context *)

InitCAS ==
    /\ InitStore
    /\ chunk_size = MaxChunk
    /\ compression = "no"
    /\ buf = <<>>

CasBuffers == BytesUpTo(MaxCasLen)
CasKeys == {CAS_put_fp("no", d) : d \in CasBuffers}

\* total refcount handed out: bounds the run
CasRefs == LET RECURSIVE Sum(_)
               Sum(S) == IF S = {} THEN 0
                         ELSE LET k == CHOOSE k \in S : TRUE
                              IN  cas[k].rc + Sum(S \ {k})
           IN  Sum(DOMAIN cas)

NextCAS ==
    \/ \E c \in Compressors, d \in CasBuffers : CasRefs < MaxCasOps /\ Put(c, d)
    \/ \E k \in CasKeys : Get(k)
    \/ \E k \in CasKeys : CasRefs < MaxCasOps /\ Up(k)
    \/ \E k \in CasKeys : Down(k)

SpecCAS == InitCAS /\ [][NextCAS]_vars

\* the statuses a backend answers without raising: success and one other
Statuses == {0, 1}

NextRefcount ==
    \/ \E c \in Compressors, d \in CasBuffers : CasRefs < MaxCasOps /\ Put(c, d)
    \/ \E k \in CasKeys, st \in Statuses : CasRefs < MaxCasOps /\ RefcountCall("up", k, st)
    \/ \E k \in CasKeys, st \in Statuses : RefcountCall("down", k, st)

SpecRefcount == InitCAS /\ [][NextRefcount]_vars

----------------------------------------------------------------------------
(* Runs of the CAS class on one buffer, put through stores of every
   compression policy *)

InitCodec ==
    /\ InitStore
    /\ chunk_size = MaxChunk
    /\ compression = "no"
    /\ buf \in BytesUpTo(MaxLen)

NextCodec ==
    \/ \E c \in Compressors : CasRefs < MaxCasOps /\ Put(c, buf)
    \/ Get(CAS_put_fp("no", buf))
    \/ Down(CAS_put_fp("no", buf))

SpecCodec == InitCodec /\ [][NextCodec]_vars

----------------------------------------------------------------------------
(* Runs of one Chunker that writes one source and reads it back *)

InitRead ==
    /\ InitStore
    /\ chunk_size \in 1..MaxChunk
    /\ compression \in Compressors
    /\ buf \in BytesUpTo(MaxLen)

Offsets == 0..(MaxLen + 1)
Lengths == 0..(MaxLen + 1)

\* HEAD, the key of the latest write and a key that no write returned
ReadVersions == {HEAD, Str(clock), Str(clock + 1)}

\* a read leaves the pool as it is: a run reads once, before or after the write
Reading == last.op \in {"read", "read_full"}

NextRead ==
    \/ \E k \in Kinds, dt \in Elapsed :
          NumWrites = 0 /\ WriteFull("a", k, buf, clock + dt)
    \/ \E v \in ReadVersions : ~Reading /\ ReadFull("a", v)
    \/ \E v \in ReadVersions, l \in Lengths, o \in Offsets :
          ~Reading /\ Read("a", l, o, v)

SpecRead == InitRead /\ [][NextRead]_vars

----------------------------------------------------------------------------
(* Runs of several stores, each with its own compression, on one pool *)

NextMixed ==
    \/ \E c \in Compressors : NewCAS(c)
    \/ CasRefs < MaxCasOps /\ Put(compression, buf)
    \/ Get(CAS_put_fp(compression, buf))
    \/ Down(CAS_put_fp(compression, buf))

SpecMixed == InitRead /\ [][NextMixed]_vars

----------------------------------------------------------------------------
(* Runs of the life of one name: versions written, removed one by one or all
   at once, and written again *)

NextLife ==
    \/ \E x \in VerContents, dt \in Elapsed :
          NumWrites < MaxWrites /\ WriteFull("a", "stream", x, clock + dt)
    \/ \E v \in VersionKeys \cup {HEAD} : nrem <= MaxRemoves /\ RemoveVersion("a", v)
    \/ nrem <= MaxRemoves /\ RemoveAllVersions("a")

SpecLife == Init /\ [][NextLife]_vars

----------------------------------------------------------------------------
(* Runs that read and remove names and versions, written or not: name "b" is
   never written, and keys are asked for that no write returned *)

NextMissing ==
    \/ \E x \in VerContents, dt \in Elapsed :
          NumWrites < MaxWrites /\ WriteFull("a", "stream", x, clock + dt)
    \/ \E n \in Names, v \in VersionKeys \cup {HEAD} :
          nrem < MaxRemoves /\ RemoveVersion(n, v)
    \/ \E n \in Names, v \in VersionKeys \cup {HEAD} : ReadFull(n, v)
    \/ \E n \in Names, v \in VersionKeys \cup {HEAD} : Read(n, 1, 0, v)

SpecMissing == Init /\ [][NextMissing]_vars

----------------------------------------------------------------------------
(* Runs of one write_full through the write pipeline, for every capacity N,
   task size B and number of pool threads W up to the bounds *)

InitPipe ==
    /\ InitStore
    /\ chunk_size \in 1..MaxChunk
    /\ compression = "no"
    /\ buf \in BytesUpTo(MaxLen)

NextPipe ==
    \/ \E k \in Kinds, N \in 1..MaxOutstanding, B \in 1..MaxBatch, W \in 1..MaxWorkers :
          StartWriteFull(k, N, B, W)
    \/ GenNext
    \/ \E w \in 1..MaxWorkers : WorkerTake(w)
    \/ \E w \in 1..MaxWorkers : WorkerItem(w)
    \/ \E dt \in Elapsed : FinishWriteFull("a", clock + dt)

SpecPipe == InitPipe /\ [][NextPipe]_vars

----------------------------------------------------------------------------
(* Runs of one write_full through the write pipeline on a pool that may hold
   the first chunk of the source already, put there by a store of any
   compression policy *)

NextDedup ==
    \/ /\ pipe.phase = "idle"
       /\ cas = EmptyMap
       /\ buf # <<>>
       /\ \E c \in Compressors : Put(c, PySlice(buf, 0, chunk_size))
    \/ \E k \in Kinds, B \in 1..MaxBatch, W \in 1..MaxWorkers :
          StartWriteFull(k, MaxOutstanding, B, W)
    \/ GenNext
    \/ \E w \in 1..MaxWorkers : WorkerTake(w)
    \/ \E w \in 1..MaxWorkers : WorkerItem(w)

SpecDedup == InitPipe /\ [][NextDedup]_vars

----------------------------------------------------------------------------
(* Runs of the recipe codec on hand-made extent lists *)

\* fingerprints of two lengths
RecipeKeys == {CAS_put_fp("no", <<>>), CAS_put_fp("no", <<255>>)}

\* extents in any order, overlapping or apart
Extents == {[off |-> o, size |-> z, fp |-> f] :
               o \in 0..MaxLen, z \in 1..MaxChunk, f \in RecipeKeys}

ExtentLists == UNION {[1..n -> Extents] : n \in 0..MaxExtents}

NextRecipe ==
    \/ last.op = "none" /\ \E E \in ExtentLists : NewRecipe(E)
    \/ Pack
    \/ last.op = "pack" /\ Unpack(last.out)

SpecRecipe == Init /\ [][NextRecipe]_vars

\* extent lists that differ in offsets and lengths only
RangeLists == {E \in ExtentLists : \A i \in 1..Len(E) : E[i].fp = CAS_put_fp("no", <<>>)}

NextRange ==
    \/ last.op = "none" /\ \E E \in RangeLists : NewRecipe(E)
    \/ \E l \in Lengths, o \in Offsets : ExtentsInRange(l, o)

SpecRange == Init /\ [][NextRange]_vars

----------------------------------------------------------------------------
(* Runs of write_full calls on one name, one after the other, each of which
   can end early with an error of the store or of the source *)

NextAbort ==
    \/ \E W \in 1..MaxWorkers : StartWriteFull("stream", MaxOutstanding, 1, W)
    \/ GenNext
    \/ \E w \in 1..MaxWorkers : WorkerTake(w)
    \/ \E w \in 1..MaxWorkers : WorkerItem(w)
    \/ \E dt \in Elapsed : FinishWriteFull("a", clock + dt)
    \/ AbortWriteFull("a")
    \/ AbortSaveRecipe("a")
    \/ ReturnWriteFull

SpecAbort == InitPipe /\ [][NextAbort]_vars

----------------------------------------------------------------------------
(* Runs of writes to two names and removals of versions that the index holds *)

NextFrame ==
    \/ \E n \in Names, x \in VerContents, dt \in Elapsed :
          NumWrites < MaxWrites /\ WriteFull(n, "stream", x, clock + dt)
    \/ \E n \in DOMAIN index : \E v \in DOMAIN index[n] \cup {HEAD} :
          nrem < MaxRemoves /\ DOMAIN index[n] # {} /\ RemoveVersion(n, v)

SpecFrame == Init /\ [][NextFrame]_vars

----------------------------------------------------------------------------
(* Runs of write_full with chunk generators that declare any length for the
   chunks they supply, the true one or another *)

\* a chunk of n bytes declared with z bytes
GenChunks == {[size |-> z, chunk |-> Ones(n)] : z \in 1..MaxChunk, n \in 1..MaxChunk}

GenOutputs ==
    {[i \in 1..Len(g) |-> [off |-> (i - 1) * MaxChunk, size |-> g[i].size,
                           chunk |-> g[i].chunk]] :
        g \in UNION {[1..n -> GenChunks] : n \in 0..MaxExtents}}

NextGen ==
    \/ NumWrites = 0 /\ last.op = "none" /\
          \E x \in VerContents : WriteFull("a", "stream", x, clock)
    \/ last.kind # "chunks" /\
          \E g \in GenOutputs, dt \in Elapsed : WriteFullChunks("a", g, clock + dt)

SpecGen == Init /\ [][NextGen]_vars

----------------------------------------------------------------------------
(* Runs that unpack recipe buffers, sound ones and damaged ones, directly and
   through read_full, read and remove_version of a version whose recipe
   object holds such a buffer *)

\* packed recipes followed by one more item
TrailingBuffers == {pack(E) \o <<t>> : E \in RangeLists, t \in {0, 3}}

\* packed recipes with another version tag
OtherVersionBuffers == {[pack(E) EXCEPT ![3] = v] : E \in RangeLists, v \in {1, 2}}

RecipeBuffers == {pack(E) : E \in RangeLists} \cup TrailingBuffers \cup OtherVersionBuffers

NextCorrupt ==
    \/ last.op = "none" /\ \E d \in RecipeBuffers : Unpack(d)
    \/ last.op = "none" /\ \E d \in RecipeBuffers : PutRecipeBytes("a", d, clock)
    \/ last.op = "put_recipe" /\ ReadFull("a", HEAD)
    \/ last.op = "put_recipe" /\ Read("a", 1, 0, HEAD)
    \/ last.op = "put_recipe" /\ RemoveVersion("a", HEAD)

SpecCorrupt == Init /\ [][NextCorrupt]_vars

----------------------------------------------------------------------------
(* write_full calls of two callers at the same time, statement by statement *)

\* the statement of write_full a caller executes next
WriterAt(c, pc) == calls[c].op = "write_full" /\ calls[c].pc = pc

\* write_full(name, file_) entered by caller c
CallWriteFull(c, name, data) ==
    /\ calls[c].pc = "idle"
    /\ calls' = [calls EXCEPT ![c] = [NoCall EXCEPT !.op = "write_full", !.pc = "chunks",
                                                    !.name = name, !.data = data]]
    /\ UNCHANGED <<cas, index, clock, last, wlog, written, nrem, chunk_size, compression, buf, pipe>>

\* recipe = self.recipe(self._write_chunks(chunks))
WriterChunks(c) ==
    /\ WriterAt(c, "chunks")
    /\ LET w == write_chunks(cas, compression,
                             static_chunker("stream", calls[c].data, chunk_size))
       IN  /\ cas' = w.store
           /\ calls' = [calls EXCEPT ![c].pc = "recipe", ![c].fps = w.fps]
    /\ UNCHANGED <<index, clock, last, wlog, written, nrem, chunk_size, compression, buf, pipe>>

\* recipe_obj_name = self.cas.put(recipe.pack())
WriterPutRecipe(c) ==
    /\ WriterAt(c, "recipe")
    /\ LET p == CAS_put(cas, compression, pack(calls[c].fps))
       IN  /\ cas' = p.store
           /\ calls' = [calls EXCEPT ![c].pc = "key", ![c].recipe_obj = p.fp]
    /\ UNCHANGED <<index, clock, last, wlog, written, nrem, chunk_size, compression, buf, pipe>>

\* index_version_key = str(make_index_version()), the clock reading `now`
WriterKey(c, now) ==
    /\ WriterAt(c, "key")
    /\ clock' = now
    /\ calls' = [calls EXCEPT ![c].pc = "omap", ![c].key = Str(make_index_version(now))]
    /\ UNCHANGED <<cas, index, last, wlog, written, nrem, chunk_size, compression, buf, pipe>>

\* set_omap on the index object, then return index_version_key
WriterSetOmap(c) ==
    /\ WriterAt(c, "omap")
    /\ index' = set_omap(index, calls[c].name, calls[c].key, calls[c].recipe_obj)
    /\ calls' = [calls EXCEPT ![c].pc = "returned", ![c].status = "ok"]
    /\ wlog' = [wlog EXCEPT ![calls[c].name] = Append(@, calls[c].key)]
    /\ written' = [written EXCEPT ![calls[c].name] =
                      [k \in DOMAIN @ \cup {calls[c].key} |->
                          IF k = calls[c].key THEN calls[c].data ELSE @[k]]]
    /\ last' = [NoOp EXCEPT !.op = "write_full", !.name = calls[c].name,
                            !.data = calls[c].data, !.version = calls[c].key,
                            !.status = "ok"]
    /\ UNCHANGED <<cas, clock, nrem, chunk_size, compression, buf, pipe>>

NextWriters ==
    \/ \E c \in Callers, x \in VerContents : CallWriteFull(c, "a", x)
    \/ \E c \in Callers : WriterChunks(c)
    \/ \E c \in Callers : WriterPutRecipe(c)
    \/ \E c \in Callers, dt \in Elapsed : WriterKey(c, clock + dt)
    \/ \E c \in Callers : WriterSetOmap(c)

SpecWriters == Init /\ [][NextWriters]_vars

----------------------------------------------------------------------------
(* remove_version calls of two callers at the same time, statement by
   statement, on a pool that earlier write_full calls have filled *)

\* the statement of remove_version a caller executes next
RemoverAt(c, pc) == calls[c].op = "remove_version" /\ calls[c].pc = pc

\* no caller is inside a call or has returned from one
NoCalls == \A c \in Callers : calls[c].pc = "idle"

\* caller c leaves remove_version with an exception
RemoverRaise(c, status) == [calls EXCEPT ![c].pc = "returned", ![c].status = status]

\* remove_version(name, version) entered by caller c
CallRemoveVersion(c, name, version) ==
    /\ calls[c].pc = "idle"
    /\ calls' = [calls EXCEPT ![c] = [NoCall EXCEPT !.op = "remove_version",
                                                    !.pc = "resolve", !.name = name,
                                                    !.want = version]]
    /\ nrem' = nrem + 1
    /\ UNCHANGED <<cas, index, clock, last, wlog, written, chunk_size, compression, buf, pipe>>

\* version, recipe_obj = self._resolve_recipe_obj_from_version(name, version)
RemoverResolve(c) ==
    /\ RemoverAt(c, "resolve")
    /\ LET v == resolve_recipe_obj_from_version(index, calls[c].name, calls[c].want)
       IN  calls' = IF v.status # "ok" THEN RemoverRaise(c, v.status)
                    ELSE [calls EXCEPT ![c].pc = "get", ![c].key = v.version,
                                       ![c].recipe_obj = v.recipe]
    /\ UNCHANGED <<cas, index, clock, last, wlog, written, nrem, chunk_size, compression, buf, pipe>>

\* recipe = self.recipe.unpack(self.cas.get(recipe_obj))
RemoverGet(c) ==
    /\ RemoverAt(c, "get")
    /\ LET r == get_recipe(cas, calls[c].recipe_obj, -1)
       IN  calls' = IF r.status = "None" THEN RemoverRaise(c, "TypeError")
                    ELSE IF r.status # "ok" THEN RemoverRaise(c, r.status)
                    ELSE [calls EXCEPT ![c].pc = "down", ![c].fps = r.fps,
                                       ![c].todo = r.fps]
    /\ UNCHANGED <<cas, index, clock, last, wlog, written, nrem, chunk_size, compression, buf, pipe>>

\* one turn of `for _, _, fp in recipe: self.cas.down(fp)`
RemoverDown(c) ==
    /\ RemoverAt(c, "down")
    /\ calls[c].todo # <<>>
    /\ cas' = CAS_down(cas, Head(calls[c].todo).fp).store
    /\ calls' = [calls EXCEPT ![c].todo = Tail(@)]
    /\ UNCHANGED <<index, clock, last, wlog, written, nrem, chunk_size, compression, buf, pipe>>

\* the loop has ended: remove_omap_keys(w_op, (version,)) on the index object
RemoverRemoveKey(c) ==
    /\ RemoverAt(c, "down")
    /\ calls[c].todo = <<>>
    /\ index' = remove_omap_keys(index, calls[c].name, calls[c].key)
    /\ written' = Keep(written, index')
    /\ calls' = [calls EXCEPT ![c].pc = "down_recipe"]
    /\ UNCHANGED <<cas, clock, last, wlog, nrem, chunk_size, compression, buf, pipe>>

\* self.cas.down(recipe_obj), and the call returns
RemoverDownRecipe(c) ==
    /\ RemoverAt(c, "down_recipe")
    /\ cas' = CAS_down(cas, calls[c].recipe_obj).store
    /\ calls' = [calls EXCEPT ![c].pc = "returned", ![c].status = "ok"]
    /\ last' = [NoOp EXCEPT !.op = "remove_version", !.name = calls[c].name,
                            !.version = calls[c].key, !.want = calls[c].want,
                            !.status = "ok"]
    /\ UNCHANGED <<index, clock, wlog, written, nrem, chunk_size, compression, buf, pipe>>

NextRemovers ==
    \/ \E n \in Names, x \in VerContents :
          NoCalls /\ NumWrites < MaxWrites /\ WriteFull(n, "stream", x, clock + 1)
    \/ \E c \in Callers, v \in VersionKeys \cup {HEAD} :
          NumWrites > 0 /\ CallRemoveVersion(c, "a", v)
    \/ \E c \in Callers : RemoverResolve(c)
    \/ \E c \in Callers : RemoverGet(c)
    \/ \E c \in Callers : RemoverDown(c)
    \/ \E c \in Callers : RemoverRemoveKey(c)
    \/ \E c \in Callers : RemoverDownRecipe(c)

SpecRemovers == Init /\ [][NextRemovers]_vars

----------------------------------------------------------------------------
(* The two I/O contexts on one pool.  CAS.__init__ and Chunker.__init__ each
   set the namespace of the context they were given; an object of the pool
   is one (namespace, key) pair, whoever addresses it.  The runs below use
   digests as logical names. *)

\* self.ioctx.set_namespace("CAS")
CAS_namespace == "CAS"

\* a Chunker that sets the namespace of the CAS on its index context
Chunker_namespace_cas == "CAS"

\* self.index_io_ctx.set_namespace("INDEX")
Chunker_namespace == "INDEX"

\* the pool after an operation that took (store0, idx0) to (store1, idx1) as
\* seen through the two contexts: with one namespace for both, an object
\* created on one side exists on the other, and one destroyed or removed on
\* one side is gone on the other
SettlePool(store0, idx0, store1, idx1) ==
    IF CAS_namespace # Chunker_namespace
    THEN [store |-> store1, idx |-> idx1]
    ELSE LET gone == (DOMAIN store0 \ DOMAIN store1) \cup (DOMAIN idx0 \ DOMAIN idx1)
             keys == (DOMAIN store1 \cup DOMAIN idx1) \ gone
         IN  [store |-> [k \in DOMAIN store1 \cap keys |-> store1[k]],
              idx   |-> [k \in keys |-> IF k \in DOMAIN idx1 THEN idx1[k] ELSE EmptyMap]]

\* the number of versions in the index
IndexSize == Cardinality(UNION {{<<n, v>> : v \in DOMAIN index[n]} : n \in DOMAIN index})

\* a call of the CAS: put, up or down
PoolCAS(op, fp, data) ==
    \E r \in {CASE op = "put" -> CAS_put(cas, compression, data).store
                [] op = "up"  -> CAS_up(cas, fp).store
                [] OTHER      -> CAS_down(cas, fp).store} :
      \E s \in {SettlePool(cas, index, r, index)} :
        /\ cas' = s.store
        /\ index' = s.idx
        /\ last' = [NoOp EXCEPT !.op = op, !.fp = fp, !.data = data,
                                !.rc0 = RefCount(cas, fp), !.status = "ok"]
        /\ UNCHANGED <<clock, wlog, written, nrem, chunk_size, compression, buf, pipe, calls>>

\* a call of the Chunker on the logical name `name`: write_full of `data` at
\* clock reading `now`, remove_version of HEAD, or remove_all_versions
PoolChunker(op, name, data, now) ==
    \E r \in {CASE op = "write_full" ->
                     write_full(cas, index, compression, chunk_size, now, name, "stream", data)
                [] op = "remove_version" -> remove_version(cas, index, name, HEAD)
                [] OTHER -> remove_all_versions(cas, index, name)} :
      \E s \in {SettlePool(cas, index, r.store, r.idx)} :
        /\ cas' = s.store
        /\ index' = s.idx
        /\ clock' = now
        /\ nrem' = IF op = "write_full" THEN nrem ELSE nrem + 1
        /\ last' = [NoOp EXCEPT !.op = op, !.name = name, !.data = data,
                                !.status = r.status]
        /\ UNCHANGED <<wlog, written, chunk_size, compression, buf, pipe, calls>>

\* the contents the runs put and write, and their digests, which the runs
\* also use as logical names
SpaceBuffers == {<<>>, <<255>>}
SpaceKeys == {CAS_put_fp("no", d) : d \in SpaceBuffers}

NextSpaces ==
    \/ /\ CasRefs < MaxCasOps
       /\ \E d \in SpaceBuffers : PoolCAS("put", CAS_put_fp(compression, d), d)
    \/ /\ CasRefs < MaxCasOps
       /\ \E k \in SpaceKeys : PoolCAS("up", k, <<>>)
    \/ \E k \in SpaceKeys : PoolCAS("down", k, <<>>)
    \/ /\ IndexSize < MaxWrites
       /\ clock < ClockStart + MaxWrites
       /\ \E n \in SpaceKeys, d \in SpaceBuffers : PoolChunker("write_full", n, d, clock + 1)
    \/ /\ nrem < MaxRemoves
       /\ \E n \in SpaceKeys : PoolChunker("remove_version", n, <<>>, clock)
    \/ /\ nrem < MaxRemoves
       /\ \E n \in SpaceKeys : PoolChunker("remove_all_versions", n, <<>>, clock)

SpecSpaces == Init /\ [][NextSpaces]_vars

----------------------------------------------------------------------------
(* Runs that read ranges of a file whose recipe has holes *)

SparseExtents == {[off |-> o, size |-> z, fp |-> CAS_put_fp("no", Ones(z))] :
                     o \in 0..MaxLen, z \in 1..MaxChunk}

\* recipes with extents in ascending order that do not overlap
SparseRecipes ==
    {E \in UNION {[1..n -> SparseExtents] : n \in 1..MaxExtents} :
        \A i \in 1..(Len(E) - 1) : E[i].off + E[i].size <= E[i + 1].off}

NextHoles ==
    \/ NumWrites = 0 /\ \E E \in SparseRecipes, dt \in Elapsed :
                           StoreRecipe("a", E, clock + dt)
    \/ \E l \in Lengths, o \in Offsets : ~Reading /\ Read("a", l, o, HEAD)
    \/ ~Reading /\ ReadFull("a", HEAD)

SpecHoles == Init /\ [][NextHoles]_vars

----------------------------------------------------------------------------
(* Properties *)

\* the content write_full stored under the version a read names
Stored(name, version) ==
    IF version = HEAD
    THEN written[name][HeadKey(index, name)]
    ELSE written[name][version]

\* a read of a version that write_full returned and the index still holds
ReadsWritten ==
    /\ last.name \in DOMAIN index
    /\ last.version \in DOMAIN written[last.name]

C2_NoLitter ==
    (/\ last.op = "remove_all_versions"
     /\ nrem = 1
     /\ wlog[last.name] # <<>>
     /\ \A n \in Names \ {last.name} : wlog[n] = <<>>)
        => /\ last.status = "ok"
           /\ DOMAIN cas = {}
           /\ DOMAIN index = {}

\* the objects of the pool whose payload decodes to `data`
ObjectsOf(store, data) ==
    {k \in DOMAIN store : decompress(store[k].compression, store[k].data) = data}

\* C3: two consecutive put calls of one buffer return the same fingerprint,
\* the pool holds exactly one object of that buffer, keyed by the fingerprint,
\* and its refcount is 2 above the count before the first call.
C3_PutTwice ==
    [][(last.op = "put" /\ last'.op = "put" /\ last'.data = last.data)
          => /\ last'.fp = last.fp
             /\ ObjectsOf(cas', last.data) = {last.fp}
             /\ DOMAIN cas' = DOMAIN cas
             /\ cas'[last.fp].rc = last.rc0 + 2]_vars

\* a second put found the object of the first and the count went from 1 to 2
C3_Witness ==
    /\ last.op = "put"
    /\ last.data # <<>>
    /\ last.rc0 = 1
    /\ DOMAIN cas = {last.fp}
    /\ cas[last.fp].rc = 2

\* C4: get of the fingerprint that put returned yields the buffer that was
\* put, for the empty buffer too and for a store of every supported
\* compressor.
C4_CasRoundTrip ==
    [][(last.op = "put" /\ last'.op = "get" /\ last'.fp = last.fp)
          => /\ last'.status = "ok"
             /\ last'.out = last.data]_vars

\* a buffer stored compressed came back from get
C4_Witness ==
    /\ last.op = "get"
    /\ last.status = "ok"
    /\ Len(buf) = MaxLen
    /\ last.out = buf
    /\ last.fp \in DOMAIN cas
    /\ cas[last.fp].compression = "bz2"
    /\ cas[last.fp].data # buf

\* every version the index holds reads back the content written under it
AllReadable(store, idx) ==
    \A n \in DOMAIN idx : \A v \in DOMAIN idx[n] :
        LET r == read_full(store, idx, n, v)
        IN  /\ r.status = "ok"
            /\ r.sink = written[n][v]
            /\ r.ret = Len(written[n][v])

\* C5: after remove_version has completed, every version still present in
\* any index entry is read back byte-exact by read_full, also when it shares
\* chunks or its recipe with the removed version.
C5_OthersReadable ==
    (last.op = "remove_version" /\ last.status = "ok") => AllReadable(cas, index)

\* a version was removed while another version with the same non-empty
\* content, hence the same chunks and recipe, is still present
C5_Witness ==
    /\ last.op = "remove_version"
    /\ last.status = "ok"
    /\ last.data # <<>>
    /\ \E n \in DOMAIN index : \E v \in DOMAIN index[n] : written[n][v] = last.data
    /\ AllReadable(cas, index)

\* a read of a stored version, named by its key or as HEAD
ReadsStored ==
    /\ last.op = "read"
    /\ last.name \in DOMAIN index
    /\ \/ last.version \in DOMAIN written[last.name]
       \/ last.version = HEAD /\ DOMAIN index[last.name] # {}

\* C6: read of a stored content x with 0 <= offset < len(x) and length >= 1
\* returns x[offset : min(offset + length, len(x))].
C6_RangeRead ==
    LET x == Stored(last.name, last.version)
    IN  (/\ ReadsStored
         /\ last.offset < Len(x)
         /\ last.length >= 1)
            => /\ last.status = "ok"
               /\ last.out = PySlice(x, last.offset, Min(last.offset + last.length, Len(x)))

\* C7: read of a stored file of size S with 0 <= offset < S and length >= 0
\* returns exactly min(length, S - offset) bytes.
C7_ResultLength ==
    LET S == Len(Stored(last.name, last.version))
    IN  (ReadsStored /\ last.offset < S)
            => /\ last.status = "ok"
               /\ Len(last.out) = Min(last.length, S - last.offset)

\* C8: read of a stored file of size S, S = 0 included, at an offset >= S
\* returns the empty byte string and does not fail.
C8_PastEnd ==
    LET S == Len(Stored(last.name, last.version))
    IN  (ReadsStored /\ last.offset >= S)
            => /\ last.status = "ok"
               /\ last.out = <<>>

\* C9: after k >= 1 write_full calls on a name and no removal, versions(name)
\* has k entries, its first entry is the key the first call returned and
\* head_version(name) is the key the last call returned.
C9_VersionList ==
    \A n \in Names :
        (nrem = 0 /\ wlog[n] # <<>>)
            => /\ versions(index, n).status = "ok"
               /\ Len(versions(index, n).versions) = Len(wlog[n])
               /\ versions(index, n).versions[1] = wlog[n][1]
               /\ head_version(index, n).status = "ok"
               /\ head_version(index, n).version = wlog[n][Len(wlog[n])]

\* C10: the keys that successive write_full calls on one name return are
\* strictly increasing, so that no call overwrites an earlier index entry.
C10_KeysIncrease ==
    \A n \in Names : \A i, j \in 1..Len(wlog[n]) :
        i < j => StrVal(wlog[n][i]) < StrVal(wlog[n][j])

\* C11: remove_version of the only version leaves the index entry in place
\* with zero versions, and head_version then returns None without error;
\* remove_all_versions on an existing index entry, emptied or written again,
\* deletes the entry, and versions / head_version then fail with
\* ObjectNotFound.
C11_RemovalSemantics ==
    [][/\ (/\ last'.op = "remove_version"
           /\ last'.status = "ok"
           /\ DOMAIN index[last'.name] = {last'.version})
          => /\ last'.name \in DOMAIN index'
             /\ versions(index', last'.name) = [status |-> "ok", versions |-> <<>>]
             /\ head_version(index', last'.name).status = "None"
       /\ (last'.op = "remove_all_versions" /\ last'.name \in DOMAIN index)
          => /\ last'.status = "ok"
             /\ last'.name \notin DOMAIN index'
             /\ versions(index', last'.name).status = "ObjectNotFound"
             /\ head_version(index', last'.name).status = "ObjectNotFound"]_vars

\* remove_all_versions has deleted an index entry that remove_version had
\* emptied before
C11_Witness ==
    /\ last.op = "remove_all_versions"
    /\ last.status = "ok"
    /\ last.ret = 0
    /\ nrem >= 2
    /\ last.name \notin DOMAIN index

\* the number of chunks of a source of n bytes
NumChunks(n, cs) == (n + cs - 1) \div cs

\* C12: whatever the interleaving and completion order of the pool threads,
\* the extent list the chunk writer returns is in input order: its i-th
\* extent has the offset and length of the i-th chunk of the source and the
\* fingerprint of that chunk's bytes, so offsets ascend.
C12_OrderPreserved ==
    pipe.phase = "done" =>
        /\ Len(pipe.fps) = NumChunks(Len(buf), chunk_size)
        /\ \A i \in 1..Len(pipe.fps) :
              LET chunk == PySlice(buf, (i - 1) * chunk_size, i * chunk_size)
              IN  /\ pipe.fps[i].off = (i - 1) * chunk_size
                  /\ pipe.fps[i].size = Len(chunk)
                  /\ pipe.fps[i].fp = fingerprint(chunk)[2]
        /\ \A i, j \in 1..Len(pipe.fps) : i < j => pipe.fps[i].off < pipe.fps[j].off

\* a write has returned whose second task completed before its first
C12_Witness ==
    /\ pipe.phase = "done"
    /\ pipe.order = <<2, 1>>
    /\ Len(pipe.fps) >= 2
    /\ pipe.fps[1].fp # pipe.fps[2].fp
    /\ last.status = "ok"

\* C13: put of an absent fingerprint creates the object with refcount 1;
\* every further put or up succeeds and adds 1; every down on an existing
\* object succeeds and takes 1 away, the one that reaches zero destroys the
\* object; up and down on an absent fingerprint report failure and create
\* nothing. An object in the pool always has a refcount of at least 1.
C13_RefcountLife ==
    [][LET f    == last'.fp
           was  == f \in DOMAIN cas
           is   == f \in DOMAIN cas'
       IN  /\ \A k \in DOMAIN cas' : cas'[k].rc >= 1
           /\ (last'.op = "put" /\ ~was) => (is /\ cas'[f].rc = 1)
           /\ (last'.op \in {"put", "up"} /\ was)
                 => (last'.status = "ok" /\ is /\ cas'[f].rc = cas[f].rc + 1)
           /\ (last'.op = "down" /\ was /\ cas[f].rc > 1)
                 => (last'.status = "ok" /\ is /\ cas'[f].rc = cas[f].rc - 1)
           /\ (last'.op = "down" /\ was /\ cas[f].rc = 1)
                 => (last'.status = "ok" /\ ~is)
           /\ (last'.op \in {"up", "down"} /\ ~was)
                 => (last'.status = "false" /\ ~is)
           /\ last'.op \in {"put", "up", "down", "get"}
                 => \A k \in (DOMAIN cas \cup DOMAIN cas') \ {f} :
                       k \in DOMAIN cas /\ k \in DOMAIN cas' /\ cas'[k] = cas[k]]_vars

\* a down brought an object from refcount 1 to destruction
C13_Witness ==
    /\ last.op = "down"
    /\ last.status = "ok"
    /\ last.rc0 = 1
    /\ last.fp \notin DOMAIN cas

\* C14: unpack of the packed form of an extent list yields the same extents,
\* element by element and in the same order, for the empty list too.
C14_RecipeRoundTrip ==
    [][(last.op = "pack" /\ last'.op = "unpack" /\ last'.data = last.out)
          => /\ last'.status = "ok"
             /\ Len(last'.fps) = Len(last.fps)
             /\ \A i \in 1..Len(last.fps) : last'.fps[i] = last.fps[i]]_vars

\* a list of distinct extents, not in offset order, came back from unpack
C14_Witness ==
    /\ last.op = "unpack"
    /\ last.status = "ok"
    /\ Len(last.fps) = MaxExtents
    /\ last.fps[1].off > last.fps[2].off
    /\ last.fps[1].fp # last.fps[2].fp
    /\ unpack(last.data).fps = last.fps

\* C15: an object keeps the payload and the compression identifier of its
\* first put through every later put, whatever the compression of the store
\* that puts; the fingerprint does not depend on the store's compression; and
\* get through a store of any compression returns the buffer that was put.
C15_MixedCompression ==
    [][/\ \A k \in DOMAIN cas \cap DOMAIN cas' :
            /\ cas'[k].compression = cas[k].compression
            /\ cas'[k].data = cas[k].data
       /\ last'.op = "put" =>
            /\ last'.fp = fingerprint(buf)[2]
            /\ last'.fp \in DOMAIN cas'
            /\ (last'.fp \notin DOMAIN cas => cas'[last'.fp].compression = compression)
       /\ (last'.op = "get" /\ last'.fp \in DOMAIN cas) =>
            /\ last'.fp = fingerprint(buf)[2]
            /\ last'.status = "ok"
            /\ last'.out = buf]_vars

\* a buffer first stored compressed was put again through a store without
\* compression
C15_Witness ==
    /\ last.op = "put"
    /\ last.rc0 >= 1
    /\ last.comp = "no"
    /\ cas[last.fp].compression = "bz2"
    /\ cas[last.fp].rc = last.rc0 + 1
    /\ Len(buf) = MaxLen
    /\ CAS_get(cas, last.fp, 0, -1).data = buf

\* the name has no index object, or the version key asked for is not a key
\* of the name's index map
Missing(idx, name, version) ==
    \/ name \notin DOMAIN idx
    \/ version # HEAD /\ version \notin DOMAIN idx[name]

\* C16: read_full, read and remove_version of a name without index object, or
\* of a version key that is not in the name's index map, fail with a not-found
\* error, return no data and change nothing.
C16_NotFound ==
    [][(/\ last'.op \in {"read_full", "read", "remove_version"}
        /\ Missing(index, last'.name, last'.want))
          => /\ last'.status \in {"ObjectNotFound", "VersionNotFound"}
             /\ last'.out = <<>>
             /\ cas' = cas
             /\ index' = index]_vars

\* C17: in the sequential strategy with capacity N, at most N chunks are
\* read from the source and not yet supplied; the generator reads a chunk
\* only while fewer than N are outstanding; a supplier call frees one slot.
C17_Outstanding ==
    [][pipe'.kind = "stream" =>
         /\ pipe'.nsupplied <= pipe'.nread
         /\ pipe'.nread - pipe'.nsupplied <= pipe'.N
         /\ pipe'.sem >= 0
         /\ pipe'.sem <= pipe'.N
         /\ (pipe.phase = "run" /\ pipe'.nread # pipe.nread) =>
               /\ pipe'.nread = pipe.nread + 1
               /\ pipe.nread - pipe.nsupplied < pipe.N
         /\ (pipe.phase = "run" /\ pipe'.nsupplied # pipe.nsupplied) =>
               /\ pipe'.nsupplied = pipe.nsupplied + 1
               /\ pipe'.sem = pipe.sem + 1]_vars

\* the generator waits with N chunks outstanding and more of the source to
\* read, after a supplier call had freed a slot that it took again
C17_Witness ==
    /\ pipe.phase = "run"
    /\ pipe.kind = "stream"
    /\ pipe.nsupplied >= 1
    /\ pipe.nread - pipe.nsupplied = pipe.N
    /\ pipe.sem = 0
    /\ ~pipe.gen_done
    /\ pipe.pos < Len(buf)

\* C18: write_full of a zero-length source succeeds: no chunk is stored, a
\* recipe with zero extents is stored as a CAS object and indexed under a
\* version key the name did not have, and read_full of that version writes
\* nothing to the sink and returns 0.
C18_EmptySource ==
    [][(last'.op = "write_full" /\ last'.data = <<>>) =>
         LET n == last'.name
             v == last'.version
         IN  /\ last'.status = "ok"
             /\ n \in DOMAIN index => v \notin DOMAIN index[n]
             /\ n \in DOMAIN index'
             /\ v \in DOMAIN index'[n]
             /\ index'[n][v] \in DOMAIN cas'
             /\ get_recipe(cas', index'[n][v], RECIPE_GET_SIZE) = [status |-> "ok", fps |-> <<>>]
             /\ DOMAIN cas' = DOMAIN cas \cup {index'[n][v]}
             /\ read_full(cas', index', n, v) = [status |-> "ok", sink |-> <<>>, ret |-> 0]]_vars

\* extent e and the half-open range [offset, offset + length) overlap
Overlaps(e, length, offset) == e.off < offset + length /\ offset < e.off + e.size

\* C19: extents_in_range returns, in recipe order, every extent that overlaps
\* the half-open range [offset, offset + length), an extent that starts
\* before the range and ends after it included.
C19_ExtentsInRange ==
    last.op = "extents_in_range" =>
        SelectSeq(last.out, LAMBDA e : Overlaps(e, last.length, last.offset))
          = SelectSeq(last.fps, LAMBDA e : Overlaps(e, last.length, last.offset))

\* the range [offset, offset + length), clamped to the file, has a position
\* that no extent covers
RangeHasHole(file, length, offset) ==
    \E i \in (offset + 1)..Min(offset + length, Len(file)) : file[i] = 0

\* C20: read over a range that includes a hole of the recipe returns a zero
\* byte at every position of the hole and the stored byte at every covered
\* position, the range being clamped to the file size.
C20_HolesZeroFilled ==
    (/\ last.op = "read"
     /\ Len(wlog["a"]) = 1
     /\ RangeHasHole(written["a"][wlog["a"][1]], last.length, last.offset))
        => /\ last.status = "ok"
           /\ last.out = PySlice(written["a"][wlog["a"][1]], last.offset,
                                 last.offset + last.length)

\* the extents of the recipe that the index holds for the version
RecipeOf(name, version) == get_recipe(cas, index[name][version], RECIPE_GET_SIZE).fps

RECURSIVE SumSizes(_)
SumSizes(fps) == IF fps = <<>> THEN 0 ELSE Head(fps).size + SumSizes(Tail(fps))

\* C21: the recipe of every write_full, with either chunk strategy, starts at
\* offset 0, each extent begins where the previous one ends, every extent
\* but the last has the chunk size, the last has 1..chunk size bytes, and the
\* lengths sum to the length of the source.
C21_RecipeShape ==
    last.op = "write_full" =>
        /\ last.status = "ok"
        /\ last.version \in DOMAIN index[last.name]
        /\ LET fps == RecipeOf(last.name, last.version)
               n   == Len(fps)
           IN  /\ n = NumChunks(Len(last.data), chunk_size)
               /\ n > 0 => fps[1].off = 0
               /\ \A i \in 1..(n - 1) :
                     /\ fps[i + 1].off = fps[i].off + fps[i].size
                     /\ fps[i].size = chunk_size
               /\ n > 0 => fps[n].size \in 1..chunk_size
               /\ SumSizes(fps) = Len(last.data)

\* a regular file was written whose last chunk is shorter than the others
C21_Witness ==
    /\ last.op = "write_full"
    /\ last.status = "ok"
    /\ last.kind = "file"
    /\ Len(last.data) = MaxLen
    /\ Len(RecipeOf(last.name, last.version)) >= 2
    /\ RecipeOf(last.name, last.version)[Len(RecipeOf(last.name, last.version))].size < chunk_size

\* C22: the index entry of the name changes only in the step that ends a
\* write_full whose chunks and recipe have all been put, and then by exactly
\* the new key mapped to the recipe put; a write_full that ends early leaves
\* the index as it was, and the store only gains objects and references.
C22_IndexLast ==
    [][/\ index' # index =>
            /\ pipeline_drained(pipe)
            /\ pipe'.phase = "done"
            /\ Len(pipe'.fps) = NumChunks(Len(buf), chunk_size)
            /\ \A i \in 1..Len(pipe'.fps) : pipe'.fps[i].fp \in DOMAIN cas
            /\ last'.version \in DOMAIN index'["a"]
            /\ index'["a"][last'.version] \in DOMAIN cas'
            /\ get_recipe(cas', index'["a"][last'.version], RECIPE_GET_SIZE).fps = pipe'.fps
            /\ index' = set_omap(index, "a", last'.version, index'["a"][last'.version])
       /\ (pipe'.phase \in {"aborted", "failed"} \/ pipe.phase \in {"aborted", "failed"})
             => index' = index
       /\ \A k \in DOMAIN cas :
             /\ k \in DOMAIN cas'
             /\ cas'[k].rc >= cas[k].rc
             /\ cas'[k].data = cas[k].data]_vars

\* a second write_full of the name ended early after it had put a chunk and
\* the index still holds the one key of the first
C22_Witness ==
    /\ pipe.phase = "aborted"
    /\ pipe.nsupplied >= 1
    /\ Len(wlog["a"]) = 1
    /\ DOMAIN index["a"] = {wlog["a"][1]}
    /\ \E k \in DOMAIN cas : cas[k].rc >= 2

\* the number of references a version holds on object k: one per extent of
\* its recipe with that fingerprint, and one on the recipe object itself
Occurrences(fps, recipe_obj, k) ==
    Cardinality({i \in 1..Len(fps) : fps[i].fp = k}) + (IF k = recipe_obj THEN 1 ELSE 0)

\* C23: remove_version lowers the refcount of every extent fingerprint once
\* per occurrence in the version's recipe and that of the recipe object once,
\* removes exactly the version's key from the name's index map, and leaves
\* every other key, every other name and every other object as they were.
C23_RemoveFrame ==
    [][(last'.op = "remove_version" /\ last'.status = "ok") =>
         LET n   == last'.name
             v   == last'.version
             ro  == index[n][v]
             fps == get_recipe(cas, ro, -1).fps
         IN  /\ DOMAIN index' = DOMAIN index
             /\ \A m \in DOMAIN index \ {n} : index'[m] = index[m]
             /\ DOMAIN index'[n] = DOMAIN index[n] \ {v}
             /\ \A k \in DOMAIN index'[n] : index'[n][k] = index[n][k]
             /\ DOMAIN cas' \subseteq DOMAIN cas
             /\ \A k \in DOMAIN cas :
                   LET c == Occurrences(fps, ro, k)
                   IN  /\ cas[k].rc >= c
                       /\ IF cas[k].rc = c THEN k \notin DOMAIN cas'
                          ELSE /\ k \in DOMAIN cas'
                               /\ cas'[k] = [cas[k] EXCEPT !.rc = @ - c]]_vars

\* a version whose recipe lists one fingerprint twice was removed while a
\* version that shares the chunk is still indexed
C23_Witness ==
    /\ last.op = "remove_version"
    /\ last.status = "ok"
    /\ chunk_size = 1
    /\ Len(last.data) >= 2
    /\ \E n \in DOMAIN index : DOMAIN index[n] # {}
    /\ \E k \in DOMAIN cas : cas[k].rc >= 1 /\ cas[k].data = <<255>>

\* the position of the first chunk whose bytes are not as many as declared,
\* 0 when there is none
FirstBad(chunks) ==
    LET bad == {i \in 1..Len(chunks) : Len(chunks[i].chunk) # chunks[i].size}
    IN  IF bad = {} THEN 0 ELSE CHOOSE i \in bad : \A j \in bad : i <= j

\* cas.put of the bytes of each chunk, in order
RECURSIVE PutAll(_, _, _)
PutAll(store, comp, chunks) ==
    IF chunks = <<>> THEN store
    ELSE PutAll(CAS_put(store, comp, Head(chunks).chunk).store, comp, Tail(chunks))

\* C24: when a supplied chunk has another length than the generator declared,
\* write_full fails with the assertion error, that chunk is not put and not
\* tried again (the pool holds the puts of the chunks handled before it, once
\* each, and nothing else new), and the index is unchanged.
C24_LengthChecked ==
    [][(last'.op = "write_full" /\ last'.kind = "chunks" /\ FirstBad(last'.fps) > 0) =>
         /\ last'.status = "AssertionError"
         /\ index' = index
         /\ cas' = PutAll(cas, compression, SubSeq(last'.fps, 1, FirstBad(last'.fps) - 1))]_vars

\* a write failed on its second chunk, after the first was put, with an
\* earlier version of the name in the index
C24_Witness ==
    /\ last.op = "write_full"
    /\ last.kind = "chunks"
    /\ last.status = "AssertionError"
    /\ FirstBad(last.fps) = 2
    /\ "a" \in DOMAIN index
    /\ Cardinality(DOMAIN index["a"]) = 1
    /\ CAS_put_fp(compression, last.fps[1].chunk) \in DOMAIN cas

\* C25: unpack fails with a decode error on every buffer with bytes after the
\* encoded structure and rejects every buffer with another version tag;
\* read_full, read and remove_version of a version with such a recipe fail
\* and change neither the pool nor the index.
C25_DecodeError ==
    [][/\ (last'.op = "unpack" /\ last'.data \in TrailingBuffers)
             => last'.status \in {"ExtraData", "UnpackValueError"}
       /\ (last'.op = "unpack" /\ last'.data \in OtherVersionBuffers)
             => last'.status = "RuntimeError"
       /\ (/\ last.op = "put_recipe"
           /\ last'.op \in {"read_full", "read", "remove_version"}
           /\ last.data \in TrailingBuffers \cup OtherVersionBuffers)
             => /\ last'.status \in {"ExtraData", "UnpackValueError", "RuntimeError"}
                /\ last'.out = <<>>
                /\ cas' = cas
                /\ index' = index]_vars

\* C26: CAS.up and CAS.down return true when the backend applied the change
\* and false whenever it did not (missing object, or a status other than
\* success), and after a false result no refcount and no object has changed.
C26_BooleanResult ==
    [][last'.op \in {"up", "down"} =>
         /\ last'.status \in {"True", "False"}
         /\ last'.status = "True" <=> cas' # cas
         /\ last'.status = "False" => cas' = cas]_vars

\* the builtin exceptions of the interpreter, which no caller of the chunker
\* is told to expect
InternalErrors == {"TypeError", "KeyError", "AssertionError"}

\* the name has an index object that holds no version
NoVersions(idx, name) == name \in DOMAIN idx /\ DOMAIN idx[name] = {}

\* C27: read_full, read and remove_version with version HEAD of a name whose
\* index object holds no version end with a reported "no versions" outcome,
\* never with an internal error, and change neither the pool nor the index.
C27_NoVersionsReported ==
    [][(/\ last'.op \in {"read_full", "read", "remove_version"}
        /\ last'.want = HEAD
        /\ NoVersions(index, last'.name))
          => /\ last'.status \notin InternalErrors
             /\ last'.status # "ok"
             /\ cas' = cas
             /\ index' = index]_vars

\* where the chunk read at offset `off` is held: in the task being filled, in
\* a queued task, with a pool thread (waiting, or supplied and put), or in the
\* result of a completed task
Waiting(p, off) ==
    {[place |-> "batch", a |-> 0, b |-> i] : i \in {j \in DOMAIN p.batch : p.batch[j].off = off}}
    \cup UNION {{[place |-> "task", a |-> t, b |-> i] :
                    i \in {j \in DOMAIN p.tasks[t].items : p.tasks[t].items[j].off = off}} :
                t \in DOMAIN p.tasks}
    \cup UNION {{[place |-> "thread", a |-> w, b |-> i] :
                    i \in {j \in DOMAIN p.work[w].items : p.work[w].items[j].off = off}} :
                w \in DOMAIN p.work}

Supplied(p, off) ==
    UNION {{[place |-> "res", a |-> w, b |-> i] :
               i \in {j \in DOMAIN p.work[w].res : p.work[w].res[j].off = off}} :
           w \in DOMAIN p.work}
    \cup UNION {{[place |-> "result", a |-> k, b |-> i] :
                    i \in {j \in DOMAIN p.results[k] : p.results[k][j].off = off}} :
                k \in DOMAIN p.results}

\* the offsets of the chunks the generator has read so far
ReadOffsets(p) == {k * chunk_size : k \in 0..(p.nread - 1)}

\* the bytes of the source that make the chunk at offset `off`
SourceChunk(off) == PySlice(buf, off, off + chunk_size)

\* C28: in one run of the chunk writer, whatever the interleaving of the pool
\* threads, every chunk read from the source is held in exactly one place
\* (so one thread at most has it), its supplier is called once and CAS.put is
\* called once with its bytes: a step that supplies a chunk supplies one, and
\* the refcount of every object is the number of supplied chunks whose bytes
\* have that fingerprint.
C28_OncePerChunk ==
    [][pipe'.phase = "run" =>
         /\ \A off \in ReadOffsets(pipe') :
               Cardinality(Waiting(pipe', off) \cup Supplied(pipe', off)) = 1
         /\ pipe'.nsupplied =
               Cardinality({off \in ReadOffsets(pipe') : Supplied(pipe', off) # {}})
         /\ pipe'.nsupplied \in {pipe.nsupplied, pipe.nsupplied + 1}
         /\ \A fp \in DOMAIN cas' \cup {CAS_put_fp(compression, SourceChunk(off)) :
                                          off \in ReadOffsets(pipe')} :
               RefCount(cas', fp) =
                  Cardinality({off \in ReadOffsets(pipe') :
                                  /\ Supplied(pipe', off) # {}
                                  /\ CAS_put_fp(compression, SourceChunk(off)) = fp})
         /\ pipeline_drained(pipe') =>
               /\ pipe'.nread = Len(static_chunker(pipe'.kind, buf, chunk_size))
               /\ pipe'.nsupplied = pipe'.nread]_vars

\* two pool threads have worked on one source of three chunks, two of them
\* with the same bytes, and every chunk has been supplied and put
C28_Witness ==
    /\ pipeline_drained(pipe)
    /\ pipe.W = 2
    /\ pipe.nsupplied = 3
    /\ Cardinality({pipe.order[i] : i \in DOMAIN pipe.order}) >= 2
    /\ \E fp \in DOMAIN cas : cas[fp].rc = 2
    /\ Cardinality(DOMAIN cas) = 2

\* both callers have returned from a write_full of name "a"
BothWritten == \A c \in Callers : WriterAt(c, "returned") /\ calls[c].name = "a"

\* C29: after two write_full calls on one name that ran at the same time, in
\* any interleaving, the keys the two calls returned differ and the name's
\* index maps each of them to the recipe object of the call that returned it.
C29_ConcurrentWriters ==
    BothWritten =>
       /\ calls[1].key # calls[2].key
       /\ \A c \in Callers :
             /\ calls[c].key \in DOMAIN index["a"]
             /\ index["a"][calls[c].key] = calls[c].recipe_obj

\* the extents write_full makes of a content, and the fingerprint of their recipe
ExtentsOf(content) ==
    write_chunks(EmptyMap, compression, static_chunker("stream", content, chunk_size)).fps

RecipeObjOf(content) == CAS_put_fp(compression, pack(ExtentsOf(content)))

\* the versions the index holds, each with the content written under it
IndexEntries == {<<n, v>> : n \in DOMAIN index, v \in VersionKeys} \cap
                UNION {{<<n, v>> : v \in DOMAIN index[n]} : n \in DOMAIN index}

\* the references the versions in `entries` hold on object k
RECURSIVE ReferencesIn(_, _)
ReferencesIn(entries, k) ==
    IF entries = {} THEN 0
    ELSE LET e == CHOOSE e \in entries : TRUE
             x == written[e[1]][e[2]]
         IN  Occurrences(ExtentsOf(x), RecipeObjOf(x), k) + ReferencesIn(entries \ {e}, k)

\* both callers are through a remove_version of the same version of name "a"
BothRemoved ==
    /\ \A c \in Callers : RemoverAt(c, "returned") /\ calls[c].status = "ok"
    /\ calls[1].key = calls[2].key

\* C30: after two remove_version calls on the same version of a name that ran
\* at the same time, in any interleaving, every object has lost no more
\* references than the version held on it: its refcount is still at least the
\* number of references the versions left in the index hold on it, so no
\* object they refer to has been destroyed.
C30_ConcurrentRemovers ==
    BothRemoved =>
       \A e \in IndexEntries :
          LET x == written[e[1]][e[2]]
          IN  \A k \in {RecipeObjOf(x)} \cup {ExtentsOf(x)[i].fp : i \in 1..Len(ExtentsOf(x))} :
                 RefCount(cas, k) >= ReferencesIn(IndexEntries, k)

\* the chunks of the source of the write that pipeline p is for
SourceChunks(p) == static_chunker(p.kind, buf, chunk_size)

\* the number of chunks of the source with the bytes d
Copies(p, d) == Cardinality({i \in DOMAIN SourceChunks(p) : SourceChunks(p)[i].chunk = d})

\* the refcount of object fp before the write began: the pool was empty, or
\* held the one object put before the write
RefCountBefore(fp) == IF last.op = "put" /\ last.fp = fp THEN 1 ELSE 0

\* C31: when the parallel writer has put every chunk of a source, whatever
\* the interleaving of the pool threads' CAS.put calls, each chunk content
\* has exactly one object in the pool, the refcount of that object has grown
\* by the number of chunks with that content, and no put of the run has
\* rewritten the payload or the metadata of an object that existed.
C31_DedupParallel ==
    [][pipe'.phase = "run" =>
         /\ \A fp \in DOMAIN cas :
               /\ fp \in DOMAIN cas'
               /\ cas'[fp].data = cas[fp].data
               /\ cas'[fp].compression = cas[fp].compression
         /\ pipeline_drained(pipe') =>
               \A i \in DOMAIN SourceChunks(pipe') :
                  LET d  == SourceChunks(pipe')[i].chunk
                      fp == CAS_put_fp(compression, d)
                  IN  /\ {k \in DOMAIN cas' : CAS_get(cas', k, 0, -1).data = d} = {fp}
                      /\ RefCount(cas', fp) = RefCountBefore(fp) + Copies(pipe', d)]_vars

\* two pool threads have put the three chunks of a source, two of them with
\* the bytes of an object that a store with another compression had put before
C31_Witness ==
    /\ pipeline_drained(pipe)
    /\ pipe.W = 2
    /\ Len(pipe.order) >= 2
    /\ last.op = "put"
    /\ last.comp # compression
    /\ Copies(pipe, last.data) = 2
    /\ Len(SourceChunks(pipe)) = 3
    /\ cas[last.fp].rc = 3
    /\ cas[last.fp].compression = last.comp

\* C32: CAS objects and index entries are in disjoint key spaces: a
\* write_full, remove_version or remove_all_versions on a logical name that
\* is the digest of a CAS object does to the pool's CAS objects only what the
\* operation's own CAS calls do (it never overwrites or deletes the object of
\* that name), and a CAS put, up or down creates or changes no index entry.
C32_DisjointSpaces ==
    [][/\ last'.op \in {"put", "up", "down"} => index' = index
       /\ last'.op = "write_full" =>
             /\ cas' = write_full(cas, index, compression, chunk_size, clock',
                                  last'.name, "stream", last'.data).store
             /\ DOMAIN cas \subseteq DOMAIN cas'
             /\ \A k \in DOMAIN cas : cas'[k].data = cas[k].data
       /\ last'.op = "remove_version" =>
             cas' = remove_version(cas, index, last'.name, HEAD).store
       /\ last'.op = "remove_all_versions" =>
             cas' = remove_all_versions(cas, index, last'.name).store]_vars

\* remove_all_versions has removed the index object of a name that is the
\* digest of a CAS object, and that CAS object is still in the pool
C32_Witness ==
    /\ last.op = "remove_all_versions"
    /\ last.status = "ok"
    /\ last.name \in DOMAIN cas
    /\ last.name \notin DOMAIN index
    /\ cas[last.name].rc >= 1

\* C33: for every name that has versions, head_version and the resolution of
\* HEAD by read_full, read and remove_version select the same version key,
\* and that key is the numerically greatest of the name's keys, also when
\* the keys differ in their number of digits.
C33_HeadNumericMax ==
    \A n \in DOMAIN index :
        DOMAIN index[n] # {} =>
            LET h == head_version(index, n)
                r == resolve_recipe_obj_from_version(index, n, HEAD)
            IN  /\ h.status = "ok"
                /\ r.status = "ok"
                /\ h.version = r.version
                /\ r.recipe = index[n][r.version]
                /\ \A k \in DOMAIN index[n] : StrVal(k) <= StrVal(h.version)

\* every (name, version key) pair the index holds
AllEntries == UNION {{<<n, v>> : v \in DOMAIN index[n]} : n \in DOMAIN index}

\* the references the index entries in `entries` hold on object k, by the
\* recipes stored in the pool
RECURSIVE RefsFromIndex(_, _)
RefsFromIndex(entries, k) ==
    IF entries = {} THEN 0
    ELSE LET e == CHOOSE e \in entries : TRUE
         IN  Occurrences(RecipeOf(e[1], e[2]), index[e[1]][e[2]], k)
             + RefsFromIndex(entries \ {e}, k)

\* the objects the index entries refer to: recipe objects and extents
ReferredObjects ==
    UNION {{index[e[1]][e[2]]} \cup
           {RecipeOf(e[1], e[2])[i].fp : i \in 1..Len(RecipeOf(e[1], e[2]))} : e \in AllEntries}

\* C34: after any sequence of write_full, remove_version and
\* remove_all_versions calls made one at a time on an empty pool, the
\* refcount of every object is the number of index entries whose recipe it
\* is plus the number of extents of those entries' recipes that name it, and
\* an object exists exactly if that number is positive.
C34_RefcountAccounting ==
    \A k \in DOMAIN cas \cup ReferredObjects :
        RefCount(cas, k) = RefsFromIndex(AllEntries, k)

----------------------------------------------------------------------------
(* Runs of one write_full on a sequential source in which the generator and
   every pool thread keep running whenever they can: the task thread of the
   pool and its W worker threads are threads of their own, so a step that
   stays possible is eventually taken *)

NextStream ==
    \/ \E N \in 1..MaxOutstanding, B \in 1..MaxBatch, W \in 1..MaxWorkers :
          StartWriteFull("stream", N, B, W)
    \/ GenNext
    \/ \E w \in 1..MaxWorkers : WorkerTake(w)
    \/ \E w \in 1..MaxWorkers : WorkerItem(w)
    \/ \E dt \in Elapsed : FinishWriteFull("a", clock + dt)

FairStream ==
    /\ WF_vars(GenNext)
    /\ \A w \in 1..MaxWorkers : WF_vars(WorkerTake(w)) /\ WF_vars(WorkerItem(w))
    /\ WF_vars(\E dt \in Elapsed : FinishWriteFull("a", clock + dt))

SpecStream == InitPipe /\ [][NextStream]_vars /\ FairStream

\* the generator waits in outstanding.acquire() and no pool thread has or can
\* get a chunk whose chunk_func would release a slot
GeneratorStuck ==
    /\ pipe.phase = "run"
    /\ ~pipe.gen_done
    /\ ~gen_enabled(pipe)
    /\ pipe.tasks = <<>>
    /\ \A w \in 1..pipe.W : ~pipe.work[w].busy

\* C35: for every capacity N >= 1, task size B >= 1 and number of pool
\* threads W >= 1, a write_full of a finite sequential source terminates:
\* every chunk is handed to a pool thread and put, and the generator does not
\* wait on its semaphore forever.
C35_Terminates == (pipe.phase = "run") ~> (pipe.phase = "done" /\ pipe.nsupplied = NumChunks(Len(buf), chunk_size))

\* C36: a remove_version that does not resolve its version (a name without
\* index object, a key that is not in the name's index map) fails and changes
\* no refcount and no index entry; so of two remove_version(name, v) calls in
\* a row the first lowers the objects of v and the second fails and changes
\* nothing.
C36_FailedRemoveNoEffect ==
    [][/\ (/\ last'.op = "remove_version"
           /\ Missing(index, last'.name, last'.want))
          => /\ last'.status # "ok"
             /\ cas' = cas
             /\ index' = index
       /\ (/\ last.op = "remove_version" /\ last.status = "ok"
           /\ last'.op = "remove_version"
           /\ last'.name = last.name /\ last'.want = last.version)
          => /\ last.version \notin DOMAIN index[last.name]
             /\ last'.status # "ok"
             /\ cas' = cas
             /\ index' = index]_vars

\* a second remove_version of a key that was written and has been removed,
\* while other versions are still stored
C36_Witness ==
    /\ last.op = "remove_version" /\ last.status # "ok"
    /\ nrem = 2
    /\ last.name \in DOMAIN index
    /\ last.want # HEAD
    /\ \E i \in 1..Len(wlog[last.name]) : wlog[last.name][i] = last.want
    /\ last.want \notin DOMAIN index[last.name]
    /\ DOMAIN index[last.name] # {}
    /\ cas # EmptyMap

\* the sub-ranges the last read asked cas.get for
LastGets == read_gets(cas, index, last.name, last.length, last.offset, last.want)

\* C37: for every recipe write_full produced and every read with offset >= 0
\* and length >= 0 that finds at least one extent, every cas.get of the read
\* asks for a sub-range inside the extent: 0 <= chunk_offset <= extent length
\* and 0 <= chunk_length <= extent length - chunk_offset; the size is never
\* negative.
C37_SubRangeInsideExtent ==
    last.op = "read" =>
        LET gets == LastGets
        IN  \A i \in 1..Len(gets) :
                /\ 0 <= gets[i].off /\ gets[i].off <= gets[i].len
                /\ 0 <= gets[i].size
                /\ gets[i].size <= gets[i].len - gets[i].off

\* a read over two extents or more that starts inside its first extent and
\* takes bytes of its first and of its last
C37_Witness ==
    /\ last.op = "read" /\ last.status = "ok"
    /\ Len(LastGets) >= 2
    /\ LastGets[1].off > 0 /\ LastGets[1].size > 0
    /\ LastGets[Len(LastGets)].size > 0

----------------------------------------------------------------------------
(* Runs of one write_full and one read of any range of the latest version *)

NextSubRange ==
    \/ \E k \in Kinds, dt \in Elapsed :
          NumWrites = 0 /\ WriteFull("a", k, buf, clock + dt)
    \/ \E l \in Lengths, o \in Offsets : ~Reading /\ Read("a", l, o, HEAD)

SpecSubRange == InitPipe /\ [][NextSubRange]_vars

\* the other strategy than the one the last write_full read its source with
OtherKind == IF last.kind = "file" THEN "stream" ELSE "file"

\* C38: for every non-empty content and every chunk_size the mmap strategy
\* and the sequential strategy yield the same (offset, length) pairs with the
\* same bytes, so write_full stores the same recipe fingerprint and the same
\* CAS objects with either.
C38_SameChunksEitherStrategy ==
    (last.op = "write_full" /\ last.data # <<>>) =>
        LET r == write_full(EmptyMap, EmptyMap, compression, chunk_size, clock,
                            last.name, OtherKind, last.data)
        IN  /\ mmap_chunker(last.data, chunk_size)
                 = fallback_chunker(last.data, chunk_size, 0, 0)
            /\ static_chunker(last.kind, last.data, chunk_size)
                 = static_chunker(OtherKind, last.data, chunk_size)
            /\ last.status = "ok" /\ r.status = "ok"
            /\ r.store = cas
            /\ r.idx = index

\* a regular file of several chunks, the last one short, has been written
C38_Witness ==
    /\ last.op = "write_full" /\ last.status = "ok" /\ last.kind = "file"
    /\ Len(last.data) > chunk_size
    /\ Len(last.data) % chunk_size # 0
    /\ Len(mmap_chunker(last.data, chunk_size)) >= 2

====
